---- MODULE Spec2Model ----
(***************************************************************************)
(* A model of the request mediation layer of realtime-api: the query       *)
(* parser (_parseQuery), the ModelMediator operations and the batch        *)
(* protocol, with the Sequelize data access provider as the environment.   *)
(*                                                                         *)
(* Strings.  A query-string value is kept as the list of its comma         *)
(* separated parts; a part is a record [pre, name] where pre is its        *)
(* leading "-" or "+" (or "" when it has none) and name is the rest.       *)
(* So "id,-bogus" is <<[pre |-> "", name |-> "id"],                        *)
(* [pre |-> "-", name |-> "bogus"]>>, substr(0, 1) of a part is pre when   *)
(* pre is not empty, and substr(1) of a signed part is the part without    *)
(* its sign.                                                               *)
(***************************************************************************)
EXTENDS Integers, Sequences, FiniteSets, TLC

VARIABLES
  query,        \* the caller's query object (mutated by _parseQuery)
  rawQuery,     \* the value the caller built the query object with
  hasQuery,     \* whether the caller passes a query object (or undefined)
  parsed,       \* what the last _parseQuery call returned
  ppc,          \* position of the parser's caller
  db,           \* the committed rows of the task table
  clock,        \* the provider's current time
  nextId,       \* the table's auto-increment counter
  concurrencyProtection,  \* the Mediator's flag, fixed at construction
  proc,         \* the Mediator calls in flight, by call slot
  tx,           \* the batch's transaction: its state and pending writes
  batch,        \* the batchCreateUpdateDelete call
  gets,         \* the getAll calls made so far, each with what it did
  locks,        \* the lock registry _locks: key -> true / false
  request,      \* an HTTP request on its way through a route's middleware
  auth          \* a request to authenticate and the responses sent for it

parseVars == <<query, rawQuery, hasQuery, parsed, ppc>>
callVars == <<db, clock, nextId, concurrencyProtection, proc, tx, batch>>
serverVars == <<locks, request, auth>>
vars == <<query, rawQuery, hasQuery, parsed, ppc, db, clock, nextId,
          concurrencyProtection, proc, tx, batch, gets, locks, request, auth>>

-----------------------------------------------------------------------------
(* Bounds of the model.                                                    *)

\* Most comma separated parts in one fields/sort value.
MaxParts == 2
\* Most keys in one query object.
MaxKeys == 2
\* Call slots: Mediator calls that may be in flight together.
MaxCalls == 2
\* The provider's clock runs from 1 to MaxClock.
MaxClock == 2
\* Most items in one batch request, over its three lists.
MaxBatchItems == 2
\* getAll calls made with one query object.
MaxGets == 2
\* Row ids that requests name: 1..MaxId.
MaxId == 2
\* LOCK and UNLOCK events the socket server receives.
MaxLockEvents == 3
\* Most middleware functions installed in one middleware array.
MaxMiddlewares == 2

-----------------------------------------------------------------------------
(* Strings and the schema.                                                 *)

Part(pre, name) == [pre |-> pre, name |-> name]

\* A plain string without sign or comma, as a one-part value.
Str(name) == <<Part("", name)>>

\* The fields of the task model: its own and Sequelize's timestamps.
rawAttributes == {"id", "description", "completed", "created_at", "updated_at"}

PARAMETERS ==
  [FIELDS |-> "fields", SORT |-> "sort", LIMIT |-> "limit", OFFSET |-> "offset"]

\* String.prototype.toLowerCase on the keys the model uses.
toLowerCase(key) ==
  CASE key = "FIELDS" -> "fields"
    [] key = "Sort"   -> "sort"
    [] key = "LIMIT"  -> "limit"
    [] key = "Offset" -> "offset"
    [] OTHER          -> key

\* field.substr(0, 1) compared with a sign.
StartsWith(part, sign) == part.pre = sign

\* field.substr(1) of a part that starts with a sign.
DropFirst(part) == Part("", part.name)

\* Number(value): [int |-> Number.isInteger(n), n |-> n].
NaN == [int |-> FALSE, n |-> 0]
Digits(name) ==
  CASE name = ""  -> [int |-> TRUE, n |-> 0]
    [] name = "0" -> [int |-> TRUE, n |-> 0]
    [] name = "1" -> [int |-> TRUE, n |-> 1]
    [] name = "2" -> [int |-> TRUE, n |-> 2]
    [] name = "5" -> [int |-> TRUE, n |-> 5]
    [] OTHER      -> NaN
Number(value) ==
  IF Len(value) # 1 THEN NaN
  ELSE LET d == Digits(value[1].name)
       IN  IF value[1].name = "" /\ value[1].pre # "" THEN NaN
           ELSE IF value[1].pre = "-" THEN [int |-> d.int, n |-> 0 - d.n]
           ELSE d

-----------------------------------------------------------------------------
(* Errors.js                                                               *)

getMissingFieldError(fieldName) ==
  [id |-> 90009, name |-> "MissingFieldError", fieldName |-> fieldName]
getFieldIncludeExcludeError ==
  [id |-> 90014, name |-> "FieldIncludeExcludeError"]
getLimitError == [id |-> 90008, name |-> "LimitError"]
getOffsetError == [id |-> 90007, name |-> "OffsetError"]

-----------------------------------------------------------------------------
(* Query objects: a sequence of [k, v] entries in insertion order.         *)

Keys(q) == [i \in 1..Len(q) |-> q[i].k]
Has(q, key) == \E i \in 1..Len(q) : q[i].k = key
Get(q, key) == q[CHOOSE i \in 1..Len(q) : q[i].k = key].v
\* delete query[key] that leaves the key in the object.
DeleteNothing(q, key) == q

Delete(q, key) == SelectSeq(q, LAMBDA e : e.k # key)

\* Errors as a list: no error is the empty list.
_checkThatSpecificFieldExists(fieldName) ==
  IF fieldName.pre = "" /\ fieldName.name \in rawAttributes
  THEN <<>>
  ELSE <<getMissingFieldError(fieldName)>>

RECURSIVE _checkThatAllFieldsExist(_)
_checkThatAllFieldsExist(fieldNames) ==
  IF fieldNames = <<>> THEN <<>>
  ELSE _checkThatSpecificFieldExists(Head(fieldNames))
         \o _checkThatAllFieldsExist(Tail(fieldNames))

-----------------------------------------------------------------------------
(* _parseQuery.  The loop state is [options, errors, query, threw]: the    *)
(* options and errors built so far, the caller's query object as mutated   *)
(* so far, and whether a TypeError has been thrown (which ends the loop).  *)

NoOptions ==
  [attributes |-> [set |-> FALSE, exclude |-> FALSE, names |-> <<>>],
   order      |-> [set |-> FALSE, items |-> <<>>],
   limit      |-> [set |-> FALSE, n |-> 0],
   offset     |-> [set |-> FALSE, n |-> 0],
   where      |-> [set |-> FALSE, query |-> <<>>]]

MapDropFirst(parts) == [i \in 1..Len(parts) |-> DropFirst(parts[i])]

\* case PARAMETERS.FIELDS
FieldsCase(st, key) ==
  IF ~Has(st.query, PARAMETERS.FIELDS)
  THEN [st EXCEPT !.threw = TRUE]       \* query.fields is undefined
  ELSE
    LET fields == Get(st.query, PARAMETERS.FIELDS)
        includeAttributes == SelectSeq(fields, LAMBDA f : ~StartsWith(f, "-"))
        excludeAttributes ==
          MapDropFirst(SelectSeq(fields, LAMBDA f : StartsWith(f, "-")))
        checked ==
          IF Len(includeAttributes) > 0
          THEN _checkThatAllFieldsExist(includeAttributes)
          ELSE _checkThatAllFieldsExist(excludeAttributes)
        attributes ==
          IF Len(includeAttributes) > 0
          THEN [set |-> TRUE, exclude |-> FALSE, names |-> includeAttributes]
          ELSE [set |-> TRUE, exclude |-> TRUE, names |-> excludeAttributes]
        mixed ==
          IF Len(includeAttributes) > 0 /\ Len(excludeAttributes) > 0
          THEN <<getFieldIncludeExcludeError>>
          ELSE <<>>
    IN  [st EXCEPT !.errors = st.errors \o checked \o mixed,
                   !.options.attributes = attributes,
                   !.query = Delete(st.query, key)]

\* The body that takes a '+' item as an unprefixed one.
SortItemPlusAscending(acc, sortItem) ==
  IF StartsWith(sortItem, "-")
  THEN LET error == _checkThatSpecificFieldExists(DropFirst(sortItem))
       IN  IF error # <<>>
           THEN [acc EXCEPT !.errors = acc.errors \o error]
           ELSE [acc EXCEPT
                   !.order = Append(acc.order, <<sortItem.name, "DESC">>)]
  ELSE LET error == _checkThatSpecificFieldExists(DropFirst(sortItem))
       IN  IF error # <<>>
           THEN [acc EXCEPT !.errors = acc.errors \o error]
           ELSE [acc EXCEPT !.order = Append(acc.order, <<sortItem.name>>)]

\* The body that does not check that the field exists.
SortItemUnchecked(acc, sortItem) ==
  IF StartsWith(sortItem, "+") THEN acc
  ELSE IF StartsWith(sortItem, "-")
  THEN [acc EXCEPT !.order = Append(acc.order, <<sortItem.name, "DESC">>)]
  ELSE [acc EXCEPT !.order = Append(acc.order, <<sortItem.name>>)]

\* The body that gives a '-' item no direction.
SortItemAllAscending(acc, sortItem) ==
  IF StartsWith(sortItem, "+") THEN acc
  ELSE LET field == IF StartsWith(sortItem, "-") THEN DropFirst(sortItem)
                    ELSE sortItem
           error == _checkThatSpecificFieldExists(field)
       IN  IF error # <<>>
           THEN [acc EXCEPT !.errors = acc.errors \o error]
           ELSE [acc EXCEPT !.order = Append(acc.order, <<field.name>>)]

\* The body of _.each(sortItems, ...): [order, errors] after one sort item.
SortItem(acc, sortItem) ==
  IF StartsWith(sortItem, "-") \/ StartsWith(sortItem, "+")
  THEN IF StartsWith(sortItem, "-")
       THEN LET error == _checkThatSpecificFieldExists(DropFirst(sortItem))
            IN  IF error # <<>>
                THEN [acc EXCEPT !.errors = acc.errors \o error]
                ELSE [acc EXCEPT
                        !.order = Append(acc.order, <<sortItem.name, "DESC">>)]
       ELSE acc
  ELSE LET error == _checkThatSpecificFieldExists(sortItem)
       IN  IF error # <<>>
           THEN [acc EXCEPT !.errors = acc.errors \o error]
           ELSE [acc EXCEPT !.order = Append(acc.order, <<sortItem.name>>)]

RECURSIVE SortItems(_, _)
SortItems(acc, sortItems) ==
  IF sortItems = <<>> THEN acc
  ELSE SortItems(SortItem(acc, Head(sortItems)), Tail(sortItems))

\* case PARAMETERS.SORT
SortCase(st, key) ==
  IF ~Has(st.query, PARAMETERS.SORT)
  THEN [st EXCEPT !.threw = TRUE,       \* query.sort is undefined
                  !.options.order = [set |-> TRUE, items |-> <<>>]]
  ELSE
    LET acc == SortItems([order |-> <<>>, errors |-> st.errors],
                         Get(st.query, PARAMETERS.SORT))
    IN  [st EXCEPT !.errors = acc.errors,
                   !.options.order = [set |-> TRUE, items |-> acc.order],
                   !.query = Delete(st.query, key)]

\* The limit case accepting every integer from 0.
LimitCaseFromZero(st, key) ==
  LET limit == Number(Get(st.query, key))
  IN  IF limit.int /\ limit.n >= 0
      THEN [st EXCEPT !.options.limit = [set |-> TRUE, n |-> limit.n],
                      !.query = Delete(st.query, key)]
      ELSE [st EXCEPT !.errors = Append(st.errors, getLimitError),
                      !.query = Delete(st.query, key)]

\* case PARAMETERS.LIMIT
LimitCase(st, key) ==
  LET limit == Number(Get(st.query, key))
  IN  IF limit.int /\ limit.n > 0
      THEN [st EXCEPT !.options.limit = [set |-> TRUE, n |-> limit.n],
                      !.query = Delete(st.query, key)]
      ELSE [st EXCEPT !.errors = Append(st.errors, getLimitError),
                      !.query = Delete(st.query, key)]

\* case PARAMETERS.OFFSET
OffsetCase(st, key) ==
  LET offset == Number(Get(st.query, key))
  IN  IF offset.int /\ offset.n >= 0
      THEN [st EXCEPT !.options.offset = [set |-> TRUE, n |-> offset.n],
                      !.query = Delete(st.query, key)]
      ELSE [st EXCEPT !.errors = Append(st.errors, getOffsetError),
                      !.query = Delete(st.query, key)]

\* default
FilterCase(st, key) ==
  [st EXCEPT !.errors = st.errors \o _checkThatSpecificFieldExists(Part("", key))]

\* switch (key.toLowerCase())
ParseKey(st, key) ==
  CASE toLowerCase(key) = PARAMETERS.FIELDS -> FieldsCase(st, key)
    [] toLowerCase(key) = PARAMETERS.SORT   -> SortCase(st, key)
    [] toLowerCase(key) = PARAMETERS.LIMIT  -> LimitCase(st, key)
    [] toLowerCase(key) = PARAMETERS.OFFSET -> OffsetCase(st, key)
    [] OTHER                                -> FilterCase(st, key)

\* _.each(keys, ...) over the keys the object had on entry.
RECURSIVE ParseKeys(_, _)
ParseKeys(st, keys) ==
  IF keys = <<>> \/ st.threw THEN st
  ELSE ParseKeys(ParseKey(st, Head(keys)), Tail(keys))

\* The object _parseQuery returns, with the caller's query object as it
\* leaves it; threw marks a call that ended in a TypeError instead.
_parseQuery(q) ==
  LET st == ParseKeys([options |-> NoOptions, errors |-> <<>>,
                       query |-> q, threw |-> FALSE], Keys(q))
  IN  IF ~st.threw /\ Len(st.errors) = 0
      THEN [st EXCEPT !.options.where = [set |-> TRUE, query |-> st.query]]
      ELSE st

\* _parseQuery(query, modelName) where query may be undefined: if (!query)
\* it returns empty options and no errors.
parseQuery(given, q) ==
  IF ~given
  THEN [options |-> NoOptions, errors |-> <<>>, query |-> q, threw |-> FALSE]
  ELSE _parseQuery(q)

-----------------------------------------------------------------------------
(* The query objects the parser is applied to.                             *)

SeqsUpTo(S, n) == UNION {[1..m -> S] : m \in 0..n}

Signs == {"", "-", "+"}
FieldNames == {"id", "bogus"}
Parts == {Part(pre, name) : pre \in Signs, name \in FieldNames}
PartLists(n) == SeqsUpTo(Parts, n) \ {<<>>}
NumberValues == {Str("5"), Str("1"), Str("0"), <<Part("-", "1")>>, Str("abc")}
FilterValues == {Str("a"), Str("b")}
ListKeys == {"fields", "FIELDS", "sort", "Sort"}
NumberKeys == {"limit", "LIMIT", "offset", "Offset"}
FilterKeys == {"description", "bogus"}

Entries(maxParts) ==
  {[k |-> key, v |-> v] : key \in ListKeys, v \in PartLists(maxParts)}
    \cup {[k |-> key, v |-> v] : key \in NumberKeys, v \in NumberValues}
    \cup {[k |-> key, v |-> v] : key \in FilterKeys, v \in FilterValues}

DistinctKeys(q) == \A i, j \in 1..Len(q) : q[i].k = q[j].k => i = j

\* One key with a value of up to MaxParts parts, or up to MaxKeys keys with
\* one-part values.
Queries ==
  {<<e>> : e \in Entries(MaxParts)}
    \cup {q \in SeqsUpTo(Entries(1), MaxKeys) : DistinctKeys(q)}

-----------------------------------------------------------------------------
(* Objects.  An item, a params object and a where clause are functions     *)
(* from their keys to values; a row is a record with the table's columns.  *)

Without(obj, keys) == [k \in DOMAIN obj \ keys |-> obj[k]]
Pick(obj, keys) == [k \in DOMAIN obj \cap keys |-> obj[k]]
Merge(obj, src) ==
  [k \in DOMAIN obj \cup DOMAIN src |-> IF k \in DOMAIN src THEN src[k] ELSE obj[k]]
Empty == <<>>

\* Object.keys(item), in the order the model writes keys.
KeyOrder == <<"id", "description", "updated_at", "created_at", "bogus", "nope">>
ObjectKeys(obj) == SelectSeq(KeyOrder, LAMBDA k : k \in DOMAIN obj)
KeyNames(keys) == [i \in 1..Len(keys) |-> Part("", keys[i])]

getItemNotFoundError(params) ==
  [id |-> 90012, name |-> "ItemNotFoundError", item |-> Pick(params, {"id"}),
   modelName |-> "task"]
getConcurrencyError(updatedItem) ==
  [id |-> 90010, name |-> "ConcurrencyError", updatedItem |-> updatedItem]
getInvalidPropertyError(propertyName) ==
  [id |-> 90016, name |-> "InvalidPropertyError", propertyName |-> propertyName]
getBatchError(createErrors, updateErrors, deleteErrors) ==
  [id |-> 90020, name |-> "BatchError", createErrors |-> createErrors,
   updateErrors |-> updateErrors, deleteErrors |-> deleteErrors]
\* getErrorCollection that wraps a single error as well.
getErrorCollectionWrapped(errors) ==
  [id |-> 90100, name |-> "ErrorCollection", type |-> "collection",
   errors |-> errors]

getErrorCollection(errors) ==
  IF Len(errors) = 1 THEN errors[1]
  ELSE [id |-> 90100, name |-> "ErrorCollection", type |-> "collection",
        errors |-> errors]

-----------------------------------------------------------------------------
(* The lock registry (locks.js) and the socket events that reach it.       *)
(* A string is the sequence of its characters' tokens; locks.registry is   *)
(* _locks, a function from the keys set so far to true / false, and        *)
(* locks.events the LOCK and UNLOCK events received.                       *)

DigitChars == <<"0", "1", "2", "3", "4", "5", "6", "7", "8", "9">>

\* `${n}` of a natural number.
RECURSIVE toString(_)
toString(n) ==
  IF n < 10 THEN <<DigitChars[n + 1]>>
  ELSE toString(n \div 10) \o <<DigitChars[(n % 10) + 1]>>

\* The key that leaves the type out.
LockKeyOfItem(type, item) == <<"-">> \o toString(item)

\* `${data.type}-${data.item}`
LockKey(type, item) == type \o <<"-">> \o toString(item)

NoLocks == [registry |-> <<>>, events |-> <<>>]

\* _locks[key] = value
SetLock(registry, key, value) ==
  [k \in DOMAIN registry \cup {key} |-> IF k = key THEN value ELSE registry[k]]

\* add(data), remove(data)
add(registry, data) == SetLock(registry, LockKey(data.type, data.item), TRUE)
remove(registry, data) == SetLock(registry, LockKey(data.type, data.item), FALSE)

\* isLocked(model, id): <<>> for undefined, else the value stored.
isLocked(registry, model, id) ==
  IF LockKey(model, id) \in DOMAIN registry
  THEN <<registry[LockKey(model, id)]>>
  ELSE <<>>

-----------------------------------------------------------------------------
(* The data access provider (Sequelize over a table with transactions).    *)
(* A statement without a transaction acts on the committed rows; one with  *)
(* the transaction acts on the transaction's view, the committed rows with *)
(* its pending writes applied, and is kept pending until commit.           *)

\* The rows that match and are not locked in the registry.
MatchingUnlocked(rows, where) ==
  {r \in rows :
     /\ \A k \in DOMAIN where : k \in DOMAIN r /\ r[k] = where[k]
     /\ isLocked(locks.registry, <<"task">>, r.id) # <<TRUE>>}

Matches(row, where) == \A k \in DOMAIN where : k \in DOMAIN row /\ row[k] = where[k]
Matching(rows, where) == {r \in rows : Matches(r, where)}

Patched(row, patch, now) ==
  [k \in DOMAIN row |->
     IF k = "updated_at" THEN now
     ELSE IF k \in DOMAIN patch THEN patch[k] ELSE row[k]]

UpdateRows(rows, patch, where, now) ==
  {IF Matches(r, where) THEN Patched(r, patch, now) ELSE r : r \in rows}

DestroyRows(rows, where) == {r \in rows : ~Matches(r, where)}

NewRow(item, id, now) ==
  [id |-> id, description |-> item.description, created_at |-> now,
   updated_at |-> now]

\* description is allowNull: false and has no default.
CreateValid(item) == "description" \in DOMAIN item
SequelizeValidationError == [id |-> 0, name |-> "SequelizeValidationError"]
SequelizeConnectionError == [id |-> 0, name |-> "SequelizeConnectionError"]
SequelizeUniqueConstraintError ==
  [id |-> 0, name |-> "SequelizeUniqueConstraintError"]

\* id is the primary key: an update after which two rows would have one id
\* is refused.
KeyConflict(rows, patch, where) ==
  Cardinality({r.id : r \in UpdateRows(rows, patch, where, 0)})
    < Cardinality(rows)

ApplyWrite(rows, w) ==
  CASE w.op = "create"  -> rows \cup {w.row}
    [] w.op = "update"  -> UpdateRows(rows, w.patch, w.where, w.now)
    [] w.op = "destroy" -> DestroyRows(rows, w.where)

RECURSIVE ApplyLog(_, _)
ApplyLog(rows, log) ==
  IF log = <<>> THEN rows ELSE ApplyLog(ApplyWrite(rows, Head(log)), Tail(log))

\* The rows a statement sees: the transaction's view or the committed rows.
View(inTx) == IF inTx THEN ApplyLog(db, tx.log) ELSE db

\* A write: [db, log] after it.
Write(inTx, w) ==
  IF inTx THEN [db |-> db, log |-> Append(tx.log, w)]
  ELSE [db |-> ApplyWrite(db, w), log |-> tx.log]

\* find({ where }): the first matching row by id, as a list of 0 or 1 rows.
Find(rows, where) ==
  LET m == Matching(rows, where)
  IN  IF m = {} THEN <<>>
      ELSE <<CHOOSE r \in m : \A o \in m : r.id <= o.id>>

-----------------------------------------------------------------------------
(* ModelMediator: one call of createOne, updateOne or deleteOne.           *)
(* A call record holds the arguments (item, params, whether a transaction  *)
(* was passed), the position of the call (pc: the provider call it waits   *)
(* for), the locals foundItem and itemUpdatedCount, and how its promise    *)
(* settled.  given is the item as the caller passed it (the call changes   *)
(* item in place); list names the batch list the call was made for.        *)

Callers == 1..MaxCalls
Ids == 1..MaxId
Times == 0..MaxClock

IdleCall ==
  [op |-> "none", pc |-> "idle", given |-> Empty, item |-> Empty,
   params |-> Empty, inTx |-> FALSE, list |-> "", index |-> 0, foundItem |-> <<>>,
   itemUpdatedCount |-> -1, state |-> "pending", result |-> <<>>,
   error |-> <<>>]

Resolve(call, value) ==
  [call EXCEPT !.pc = "done", !.state = "resolved", !.result = <<value>>]
Reject(call, error) ==
  [call EXCEPT !.pc = "done", !.state = "rejected", !.error = <<error>>]

\* createOne that does not check the item's keys.
StartCreateOneUnchecked(call, item) ==
  [call EXCEPT !.op = "createOne", !.given = item,
               !.item = Without(item, {"id", "created_at", "updated_at"}),
               !.pc = "create"]

\* createOne, up to its call of create.
StartCreateOne(call, item) ==
  LET errors == _checkThatAllFieldsExist(KeyNames(ObjectKeys(item)))
      started == [call EXCEPT !.op = "createOne", !.given = item, !.item = item]
  IN  IF Len(errors) > 0
      THEN Reject(started, getErrorCollection(errors))
      ELSE [started EXCEPT
              !.item = Without(item, {"id", "created_at", "updated_at"}),
              !.pc = "create"]

\* createOne that resolves with the whole stored item.
CreateSettledWholeRow(call, id, now) ==
  IF CreateValid(call.item)
  THEN Resolve(call, NewRow(call.item, id, now))
  ELSE Reject(call, SequelizeValidationError)

\* createOne, when create settles.
CreateSettled(call, id, now) ==
  IF CreateValid(call.item)
  THEN Resolve(call, Pick(NewRow(call.item, id, now),
                          {"id", "created_at", "updated_at"}))
  ELSE Reject(call, SequelizeValidationError)

\* updateOne, up to its call of find.
StartUpdateOne(call, item, params) ==
  [call EXCEPT !.op = "updateOne", !.given = item, !.item = item,
               !.params = params, !.pc = "find"]

\* The comparison with >= in place of >: an item as new as the row is stale.
IsStaleOrEqual(foundItem, item) ==
  "updated_at" \in DOMAIN item /\ foundItem.updated_at >= item.updated_at

\* foundItem.dataValues.updated_at > new Date(item.updated_at); a missing
\* updated_at gives an invalid date, which compares false.
IsStale(foundItem, item) ==
  "updated_at" \in DOMAIN item /\ foundItem.updated_at > item.updated_at

\* updateOne, when the first find settles with foundItem.
UpdateFoundSettled(call, foundItem) ==
  IF foundItem = <<>>
  THEN Reject(call, getItemNotFoundError(call.params))
  ELSE IF concurrencyProtection /\ IsStale(foundItem[1], call.item)
  THEN Reject([call EXCEPT !.foundItem = foundItem],
              getConcurrencyError(foundItem[1]))
  ELSE [call EXCEPT
          !.foundItem = foundItem,
          !.item = Without(call.item,
                           DOMAIN call.params \cup {"created_at", "updated_at"}),
          !.pc = "update"]

\* updateOne that reloads the row whatever update reports.
UpdateAppliedSettledAnyCount(call, itemUpdatedCount) ==
  [call EXCEPT !.itemUpdatedCount = itemUpdatedCount, !.pc = "reload"]

\* updateOne, when update settles with itemUpdatedCount.
UpdateAppliedSettled(call, itemUpdatedCount) ==
  IF itemUpdatedCount > 0
  THEN [call EXCEPT !.itemUpdatedCount = itemUpdatedCount, !.pc = "reload"]
  ELSE Reject([call EXCEPT !.itemUpdatedCount = itemUpdatedCount],
              getItemNotFoundError(call.params))

\* updateOne, when the second find settles with updatedItem.
UpdateReloadedSettled(call, updatedItem) ==
  Resolve(call, IF updatedItem = <<>> THEN Empty
                ELSE Pick(updatedItem[1], {"id", "updated_at"}))

\* deleteOne that does not pass its transaction on to destroy.
StartDeleteOneNoTransaction(call, queryAndParams) ==
  [call EXCEPT !.op = "deleteOne", !.params = queryAndParams,
               !.pc = "destroy", !.inTx = FALSE]

\* deleteOne, up to its call of destroy.
StartDeleteOne(call, queryAndParams) ==
  [call EXCEPT !.op = "deleteOne", !.params = queryAndParams, !.pc = "destroy"]

\* deleteOne that resolves whatever destroy reports.
DeleteSettledResolved(call, result) == Resolve(call, Pick(call.params, {"id"}))

\* deleteOne, when destroy settles with result.
DeleteSettled(call, result) ==
  IF result > 0
  THEN Resolve(call, Pick(call.params, {"id"}))
  ELSE Reject(call, getItemNotFoundError(call.params))

\* The handlers that keep a list's first failure only.
CollectedFirstFailure(b, call) ==
  IF call.list = "" \/ call.pc # "done" THEN b
  ELSE IF call.state = "resolved"
  THEN CASE call.list = "create" ->
              [b EXCEPT !.createResults = Append(@, call.result[1])]
         [] call.list = "update" ->
              [b EXCEPT !.updateResults = Append(@, call.result[1])]
         [] call.list = "delete" ->
              [b EXCEPT !.deleteResults = Append(@, call.result[1])]
  ELSE CASE call.list = "create" ->
              [b EXCEPT !.createErrors = <<call.error[1]>>]
         [] call.list = "update" ->
              [b EXCEPT !.updateErrors = <<call.error[1]>>]
         [] call.list = "delete" ->
              [b EXCEPT !.deleteErrors = <<call.error[1]>>]

\* The then-handlers batchCreateUpdateDelete puts on a per-item call.
Collected(b, call) ==
  IF call.list = "" \/ call.pc # "done" THEN b
  ELSE IF call.state = "resolved"
  THEN CASE call.list = "create" ->
              [b EXCEPT !.createResults = Append(@, call.result[1])]
         [] call.list = "update" ->
              [b EXCEPT !.updateResults = Append(@, call.result[1])]
         [] call.list = "delete" ->
              [b EXCEPT !.deleteResults = Append(@, call.result[1])]
  ELSE CASE call.list = "create" ->
              [b EXCEPT !.createErrors = Append(@, call.error[1])]
         [] call.list = "update" ->
              [b EXCEPT !.updateErrors = Append(@, call.error[1])]
         [] call.list = "delete" ->
              [b EXCEPT !.deleteErrors = Append(@, call.error[1])]

\* A per-item call of the batch has settled: the batch's handler on its
\* promise is queued and runs in a later step.
Queued(b, c, call) ==
  IF call.list # "" /\ call.pc = "done"
  THEN [b EXCEPT !.queue = Append(@, c)]
  ELSE b

\* The pending statement of each position of a call.
Statements ==
  {"create", "find", "update", "reload", "destroy", "updateMany", "destroyAll"}

\* error => reject(error): the provider rejected the pending statement.
StatementRejected(call) == Reject(call, SequelizeConnectionError)

-----------------------------------------------------------------------------
(* The steps of a call c: each is the provider settling the call's         *)
(* pending statement and the call running on to its next statement.        *)

\* The provider rejects the pending statement of the call, which is not
\* carried out.
StatementFailed(c) ==
  /\ proc[c].pc \in Statements
  /\ LET done == StatementRejected(proc[c])
     IN  /\ proc' = [proc EXCEPT ![c] = done]
         /\ batch' = Queued(batch, c, done)
  /\ UNCHANGED <<db, tx, clock, nextId, concurrencyProtection, parseVars, gets,
                 serverVars>>

\* models[modelName].create(item, { transaction }) settles.
CreateDone(c) ==
  /\ proc[c].pc = "create"
  /\ LET done == CreateSettled(proc[c], nextId, clock)
         w == Write(proc[c].inTx,
                    [op |-> "create", row |-> NewRow(proc[c].item, nextId, clock)])
     IN  /\ proc' = [proc EXCEPT ![c] = done]
         /\ batch' = Queued(batch, c, done)
         /\ IF CreateValid(proc[c].item)
            THEN /\ db' = w.db
                 /\ tx' = [tx EXCEPT !.log = w.log]
                 /\ nextId' = nextId + 1
            ELSE UNCHANGED <<db, tx, nextId>>
  /\ UNCHANGED <<clock, concurrencyProtection, parseVars, gets, serverVars>>

\* models[modelName].find({ where: params }) settles (no transaction).
UpdateFound(c) ==
  /\ proc[c].pc = "find"
  /\ LET next == UpdateFoundSettled(proc[c], Find(db, proc[c].params))
     IN  /\ proc' = [proc EXCEPT ![c] = next]
         /\ batch' = Queued(batch, c, next)
  /\ UNCHANGED <<db, tx, clock, nextId, concurrencyProtection, parseVars, gets, serverVars>>

\* models[modelName].update(item, { where: params, transaction }) settles.
UpdateApplied(c) ==
  /\ proc[c].pc = "update"
  /\ LET count == Cardinality(Matching(View(proc[c].inTx), proc[c].params))
         w == Write(proc[c].inTx,
                    [op |-> "update", patch |-> proc[c].item,
                     where |-> proc[c].params, now |-> clock])
         refused == KeyConflict(View(proc[c].inTx), proc[c].item, proc[c].params)
         next == IF refused
                 THEN Reject(proc[c], SequelizeUniqueConstraintError)
                 ELSE UpdateAppliedSettled(proc[c], count)
     IN  /\ proc' = [proc EXCEPT ![c] = next]
         /\ batch' = Queued(batch, c, next)
         /\ db' = IF refused THEN db ELSE w.db
         /\ tx' = IF refused THEN tx ELSE [tx EXCEPT !.log = w.log]
  /\ UNCHANGED <<clock, nextId, concurrencyProtection, parseVars, gets, serverVars>>

\* The second models[modelName].find({ where: params }) settles.
UpdateReloaded(c) ==
  /\ proc[c].pc = "reload"
  /\ LET done == UpdateReloadedSettled(proc[c], Find(db, proc[c].params))
     IN  /\ proc' = [proc EXCEPT ![c] = done]
         /\ batch' = Queued(batch, c, done)
  /\ UNCHANGED <<db, tx, clock, nextId, concurrencyProtection, parseVars, gets, serverVars>>

\* models[modelName].destroy({ where: queryAndParams, transaction }) settles.
DeleteDone(c) ==
  /\ proc[c].pc = "destroy"
  /\ LET count == Cardinality(Matching(View(proc[c].inTx), proc[c].params))
         w == Write(proc[c].inTx, [op |-> "destroy", where |-> proc[c].params])
         done == DeleteSettled(proc[c], count)
     IN  /\ proc' = [proc EXCEPT ![c] = done]
         /\ batch' = Queued(batch, c, done)
         /\ db' = w.db
         /\ tx' = [tx EXCEPT !.log = w.log]
  /\ UNCHANGED <<clock, nextId, concurrencyProtection, parseVars, gets, serverVars>>

\* Time passes at the provider.
Tick ==
  /\ clock < MaxClock
  /\ clock' = clock + 1
  /\ UNCHANGED <<db, nextId, concurrencyProtection, proc, tx, batch, parseVars, gets,
                 serverVars>>

-----------------------------------------------------------------------------
(* batchCreateUpdateDelete.  items is [createItems, updateItems,           *)
(* deleteItems, other]: the three lists (an absent list is the empty one)  *)
(* and the names of the other top-level keys of the request.  queue holds  *)
(* the per-item calls that have settled and whose then-handler of the      *)
(* batch has not run yet, in the order they settled.                       *)

IdleBatch ==
  [pc |-> "idle",
   items |-> [createItems |-> <<>>, updateItems |-> <<>>, deleteItems |-> <<>>,
              other |-> <<>>],
   params |-> Empty, errors |-> <<>>,
   createErrors |-> <<>>, updateErrors |-> <<>>, deleteErrors |-> <<>>,
   createResults |-> <<>>, updateResults |-> <<>>, deleteResults |-> <<>>,
   queue |-> <<>>, state |-> "pending", result |-> <<>>, error |-> <<>>]

NoTx == [state |-> "none", log |-> <<>>]

\* No item is checked against the schema.
ListErrorsSkipped(list) == <<>>

\* The errors of _checkThatAllFieldsExist over the items of one list.
RECURSIVE ListErrors(_)
ListErrors(list) ==
  IF list = <<>> THEN <<>>
  ELSE _checkThatAllFieldsExist(KeyNames(ObjectKeys(Head(list))))
         \o ListErrors(Tail(list))

\* Only the first of the other keys is reported.
InvalidPropertiesFirstOnly(other) ==
  IF other = <<>> THEN <<>> ELSE <<getInvalidPropertyError(other[1])>>

\* One InvalidPropertyError per top-level key that is not a list's name.
InvalidProperties(other) ==
  [i \in 1..Len(other) |-> getInvalidPropertyError(other[i])]

\* The call up to models.sequelize.transaction(): the two validations.
BatchValidated(items, params) ==
  LET b == [IdleBatch EXCEPT !.items = items, !.params = params]
      errors == InvalidProperties(items.other)
      createErrors == ListErrors(items.createItems)
      updateErrors == ListErrors(items.updateItems)
      deleteErrors == ListErrors(items.deleteItems)
      errorCount == Len(errors) + Len(createErrors) + Len(updateErrors)
                      + Len(deleteErrors)
  IN  IF Len(errors) > 0
      THEN [b EXCEPT !.pc = "done", !.state = "rejected", !.errors = errors,
                     !.error = <<getErrorCollection(errors)>>]
      ELSE IF errorCount > 0
      THEN \* getBatchError takes three parameters and is given four here:
           \* errors, createErrors, updateErrors, deleteErrors.
           [b EXCEPT !.pc = "done", !.state = "rejected",
                     !.createErrors = createErrors,
                     !.updateErrors = updateErrors,
                     !.deleteErrors = deleteErrors,
                     !.error = <<getBatchError(errors, createErrors, updateErrors)>>]
      ELSE [b EXCEPT !.pc = "begin"]

\* A per-item call that is not given the transaction.
ItemCallNoTransaction(list, i) ==
  [IdleCall EXCEPT !.inTx = FALSE, !.list = list, !.index = i]

\* The per-item calls the transaction callback makes, in list order.
ItemCall(list, i) == [IdleCall EXCEPT !.inTx = TRUE, !.list = list, !.index = i]
WithId(params, item) == Merge(params, Pick(item, {"id"}))
ItemCalls(items, params) ==
  [i \in 1..Len(items.createItems) |->
     StartCreateOne(ItemCall("create", i), Merge(items.createItems[i], params))]
  \o [i \in 1..Len(items.updateItems) |->
     StartUpdateOne(ItemCall("update", i), items.updateItems[i],
                    WithId(params, items.updateItems[i]))]
  \o [i \in 1..Len(items.deleteItems) |->
     StartDeleteOne(ItemCall("delete", i), WithId(params, items.deleteItems[i]))]

\* The calls that have settled by the time they return, queued in the
\* order they were made.
RECURSIVE QueuedAll(_, _, _)
QueuedAll(b, calls, c) ==
  IF c > Len(calls) THEN b
  ELSE QueuedAll(Queued(b, c, calls[c]), calls, c + 1)

\* The callback of Promise.all(promises): commit or roll back.
BatchJoined(b) ==
  LET errorCount == Len(b.errors) + Len(b.createErrors) + Len(b.updateErrors)
                      + Len(b.deleteErrors)
  IN  IF errorCount = 0
      THEN [b EXCEPT !.pc = "done", !.state = "resolved",
                     !.result = <<[createResults |-> b.createResults,
                                   updateResults |-> b.updateResults,
                                   deleteResults |-> b.deleteResults]>>]
      ELSE [b EXCEPT !.pc = "done", !.state = "rejected",
                     !.error = <<getBatchError(b.createErrors, b.updateErrors,
                                               b.deleteErrors)>>]

\* What the joined batch asks of its transaction.
JoinedTx(b) == IF b.state = "resolved" THEN "committing" ELSE "rollingBack"

-----------------------------------------------------------------------------
(* The batch's own steps.                                                  *)

BatchCreateItems ==
  {[description |-> "c"], [description |-> "d"], Empty,
   [description |-> "c", bogus |-> 1]}
\* The update items of a batch carry an updated_at older than the stored
\* row's, or the same (no time passes during a batch).
BatchUpdateItems ==
  {[id |-> i, description |-> "b", updated_at |-> t] : i \in Ids, t \in {0, 1}}
    \cup {[id |-> 1, bogus |-> 1]}
BatchDeleteItems == {[id |-> i] : i \in Ids} \cup {[id |-> 1, bogus |-> 1]}
OtherKeys == {<<>>, <<"bogus">>, <<"bogus", "nope">>}

ListLengths ==
  {n \in (0..MaxBatchItems) \X (0..MaxBatchItems) \X (0..MaxBatchItems) :
     n[1] + n[2] + n[3] <= MaxBatchItems}
BatchRequests ==
  UNION {[createItems : [1..n[1] -> BatchCreateItems],
          updateItems : [1..n[2] -> BatchUpdateItems],
          deleteItems : [1..n[3] -> BatchDeleteItems],
          other : OtherKeys] : n \in ListLengths}

\* batchCreateUpdateDelete(items, params) is called.
BatchCall ==
  /\ batch.pc = "idle"
  /\ \E items \in BatchRequests :
       batch' = BatchValidated(items, Empty)
  /\ UNCHANGED <<db, clock, nextId, concurrencyProtection, proc, tx, parseVars,
                 gets, serverVars>>

\* models.sequelize.transaction() resolves and its callback runs: a
\* Promise.map is set up for each list that has items, and Promise.all for
\* them; no per-item call is made yet.
BatchBegun ==
  /\ batch.pc = "begin"
  /\ batch' = [batch EXCEPT
                 !.pc = IF ItemCalls(batch.items, batch.params) = <<>>
                        THEN "executing" ELSE "mapping"]
  /\ tx' = [state |-> "open", log |-> <<>>]
  /\ UNCHANGED <<db, clock, nextId, concurrencyProtection, proc, parseVars,
                 gets, serverVars>>

\* The mappers of Promise.map run: the per-item calls are made, each with
\* its statement pending.
BatchItemCalls ==
  /\ batch.pc = "mapping"
  /\ LET calls == ItemCalls(batch.items, batch.params)
     IN  /\ proc' = calls
         /\ batch' = QueuedAll([batch EXCEPT !.pc = "executing"], calls, 1)
  /\ UNCHANGED <<db, clock, nextId, concurrencyProtection, tx, parseVars,
                 gets, serverVars>>

\* The batch's handler on the promise of the per-item call that settled
\* first runs: its result or its error is collected.
BatchCollect ==
  /\ batch.queue # <<>>
  /\ batch' = Collected([batch EXCEPT !.queue = Tail(@)],
                        proc[Head(batch.queue)])
  /\ UNCHANGED <<db, clock, nextId, concurrencyProtection, proc, tx, parseVars,
                 gets, serverVars>>

\* models.sequelize.transaction() rejects.
BatchBeginFailed ==
  /\ batch.pc = "begin"
  /\ batch' = [batch EXCEPT !.pc = "done", !.state = "rejected",
                            !.error = <<SequelizeConnectionError>>]
  /\ UNCHANGED <<db, clock, nextId, concurrencyProtection, proc, tx, parseVars,
                 gets, serverVars>>

\* The join that does not wait for the per-item calls.
BatchJoinEarly ==
  /\ batch.pc = "executing"
  /\ batch' = BatchJoined(batch)
  /\ tx' = [tx EXCEPT !.state = JoinedTx(batch')]
  /\ UNCHANGED <<db, clock, nextId, concurrencyProtection, proc, parseVars,
                 gets, serverVars>>

\* Promise.all(promises) resolves: every per-item call has settled and the
\* batch's handler on it has run.
BatchJoin ==
  /\ batch.pc = "executing"
  /\ \A c \in DOMAIN proc : proc[c].pc = "done"
  /\ batch.queue = <<>>
  /\ batch' = BatchJoined(batch)
  /\ tx' = [tx EXCEPT !.state = JoinedTx(batch')]
  /\ UNCHANGED <<db, clock, nextId, concurrencyProtection, proc, parseVars,
                 gets, serverVars>>

\* transaction.commit() settles: the pending writes become visible.
TxCommitted ==
  /\ tx.state = "committing"
  /\ db' = ApplyLog(db, tx.log)
  /\ tx' = [tx EXCEPT !.state = "committed"]
  /\ UNCHANGED <<clock, nextId, concurrencyProtection, proc, batch, parseVars,
                 gets, serverVars>>

\* transaction.commit() rejects: the pending writes are lost.
TxCommitFailed ==
  /\ tx.state = "committing"
  /\ tx' = [tx EXCEPT !.state = "commitFailed"]
  /\ UNCHANGED <<db, clock, nextId, concurrencyProtection, proc, batch,
                 parseVars, gets, serverVars>>

\* transaction.rollback() settles: the pending writes are dropped.
TxRolledBack ==
  /\ tx.state = "rollingBack"
  /\ tx' = [tx EXCEPT !.state = "rolledBack"]
  /\ UNCHANGED <<db, clock, nextId, concurrencyProtection, proc, batch,
                 parseVars, gets, serverVars>>

-----------------------------------------------------------------------------
(* Calls made on the Mediator directly (the routes' handlers).             *)

CreateItems ==
  {[description |-> "c"], Empty, [description |-> "c", bogus |-> 1],
   [description |-> "c", bogus |-> 1, nope |-> 1],
   [id |-> 1, description |-> "c", updated_at |-> 0]}
UpdateItems ==
  {[id |-> i, description |-> "b"] : i \in Ids}
    \cup {[id |-> i, description |-> "b", updated_at |-> t] : i \in Ids, t \in Times}

CallCreateOne(c) ==
  /\ proc[c].pc = "idle"
  /\ \E item \in CreateItems :
       proc' = [proc EXCEPT ![c] = StartCreateOne(IdleCall, item)]
  /\ UNCHANGED <<db, clock, nextId, concurrencyProtection, tx, batch, parseVars,
                 gets, serverVars>>

\* PUT /:id merges the path parameters into the body: params is { id }.
CallUpdateOne(c) ==
  /\ proc[c].pc = "idle"
  /\ \E item \in UpdateItems :
       proc' = [proc EXCEPT
                  ![c] = StartUpdateOne(IdleCall, item, Pick(item, {"id"}))]
  /\ UNCHANGED <<db, clock, nextId, concurrencyProtection, tx, batch, parseVars,
                 gets, serverVars>>

\* updateOne called with params that select rows by another column: params
\* does not contain id.
UpdateItemsWithId == {[id |-> i, description |-> "b"] : i \in 1..(MaxId + 1)}
CallUpdateOneWhere(c) ==
  /\ proc[c].pc = "idle"
  /\ \E item \in UpdateItemsWithId :
       proc' = [proc EXCEPT
                  ![c] = StartUpdateOne(IdleCall, item, [description |-> "a"])]
  /\ UNCHANGED <<db, clock, nextId, concurrencyProtection, tx, batch, parseVars,
                 gets, serverVars>>

CallDeleteOne(c) ==
  /\ proc[c].pc = "idle"
  /\ \E i \in Ids :
       proc' = [proc EXCEPT ![c] = StartDeleteOne(IdleCall, [id |-> i])]
  /\ UNCHANGED <<db, clock, nextId, concurrencyProtection, tx, batch, parseVars,
                 gets, serverVars>>

\* No call is in flight.
Quiet == \A c \in DOMAIN proc : proc[c].pc \in {"idle", "done"}

-----------------------------------------------------------------------------
(* getAll, and the provider's findAll.                                     *)

\* Rows in the order findAll returns them: by the order items in turn
\* (columns with integer values), then by id.
RECURSIVE Before(_, _, _)
Before(r1, r2, items) ==
  IF items = <<>> THEN r1.id < r2.id
  ELSE LET col == Head(items)[1]
           desc == Len(Head(items)) > 1
       IN  IF r1[col] = r2[col] THEN Before(r1, r2, Tail(items))
           ELSE IF desc THEN r1[col] > r2[col] ELSE r1[col] < r2[col]

RECURSIVE Sorted(_, _)
Sorted(rows, items) ==
  IF rows = {} THEN <<>>
  ELSE LET first == CHOOSE r \in rows :
                      \A o \in rows \ {r} : Before(r, o, items)
       IN  <<first>> \o Sorted(rows \ {first}, items)

\* where: { key: value }, the value a string the column is compared with.
WhereMatches(row, where) ==
  \A i \in 1..Len(where) :
    where[i].k \in DOMAIN row /\ where[i].v = Str(row[where[i].k])

Names(parts) == {parts[i].name : i \in 1..Len(parts)}
Projected(row, attributes) ==
  IF ~attributes.set THEN row
  ELSE IF attributes.exclude THEN Without(row, Names(attributes.names))
  ELSE Pick(row, Names(attributes.names))

Min(a, b) == IF a < b THEN a ELSE b

FindAll(rows, options) ==
  LET matching == {r \in rows : WhereMatches(r, options.where.query)}
      ordered == Sorted(matching, options.order.items)
      from == IF options.offset.set THEN options.offset.n + 1 ELSE 1
      to == IF options.limit.set
            THEN Min(Len(ordered), from + options.limit.n - 1)
            ELSE Len(ordered)
      page == SubSeq(ordered, from, to)
  IN  [i \in 1..Len(page) |-> Projected(page[i], options.attributes)]

\* getAll(queryAndParams) when it returns: what it was given, what
\* _parseQuery made of it, whether findAll was called, and its promise:
\* pending on findAll, or rejected with the parser's errors (or getAll
\* threw and there is no promise).
GetAllCalled(q) ==
  LET optionInfo == parseQuery(hasQuery, q)
  IN  [given |-> q,
       options |-> optionInfo.options,
       found |-> ~optionInfo.threw /\ Len(optionInfo.errors) = 0,
       state |-> IF optionInfo.threw THEN "threw"
                 ELSE IF Len(optionInfo.errors) = 0 THEN "pending"
                 ELSE "rejected",
       result |-> <<>>,
       error |-> IF ~optionInfo.threw /\ Len(optionInfo.errors) > 0
                 THEN <<getErrorCollection(optionInfo.errors)>> ELSE <<>>]

\* findAll settles with the rows of the table as it is now: resolve(result).
GetAllResolved(call, rows) ==
  [call EXCEPT !.state = "resolved", !.result = FindAll(rows, call.options)]

\* findAll settles by rejecting: reject(error).
GetAllRejected(call, error) ==
  [call EXCEPT !.state = "rejected", !.error = <<error>>]

\* The caller calls getAll with its query object.
GetAll ==
  /\ Len(gets) < MaxGets
  /\ gets' = Append(gets, GetAllCalled(query))
  /\ parsed' = parseQuery(hasQuery, query)
  /\ query' = parsed'.query
  /\ ppc' = "parsed"
  /\ UNCHANGED <<rawQuery, hasQuery, callVars, serverVars>>

\* The provider settles the findAll of a pending getAll with its rows.
GetAllDone ==
  /\ \E i \in DOMAIN gets :
       /\ gets[i].state = "pending"
       /\ gets' = [gets EXCEPT ![i] = GetAllResolved(gets[i], db)]
  /\ UNCHANGED <<parseVars, callVars, serverVars>>

\* The provider settles the findAll of a pending getAll by rejecting.
GetAllFailed ==
  /\ \E i \in DOMAIN gets :
       /\ gets[i].state = "pending"
       /\ gets' = [gets EXCEPT ![i] =
                     GetAllRejected(gets[i], SequelizeConnectionError)]
  /\ UNCHANGED <<parseVars, callVars, serverVars>>

\* The caller calls _parseQuery with its query object.
ParseQuery ==
  /\ ppc = "ready"
  /\ parsed' = parseQuery(hasQuery, query)
  /\ query' = parsed'.query
  /\ ppc' = "parsed"
  /\ UNCHANGED <<rawQuery, hasQuery, gets, callVars, serverVars>>

-----------------------------------------------------------------------------
(* updateMany.                                                             *)

\* updateMany that passes the item as it was given.
StartUpdateManyUnstripped(call, item, params) ==
  [call EXCEPT !.op = "updateMany", !.given = item, !.item = item,
               !.params = params, !.pc = "updateMany"]

\* updateMany, up to its call of update.
StartUpdateMany(call, item, params) ==
  [call EXCEPT !.op = "updateMany", !.given = item,
               !.item = Without(item, {"id", "created_at", "updated_at"}),
               !.params = params, !.pc = "updateMany"]

\* updateMany, when update settles: .spread((affectedCount) => ...).
UpdateManySettled(call, affectedCount) ==
  Resolve(call, [affectedCount |-> affectedCount])

UpdateManyItems ==
  {[description |-> "b"], [id |-> 2, description |-> "b", updated_at |-> 0]}
UpdateManyParams == {Empty, [description |-> "a"], [description |-> "none"]}

\* The caller calls updateMany.
CallUpdateMany(c) ==
  /\ proc[c].pc = "idle"
  /\ \E item \in UpdateManyItems, params \in UpdateManyParams :
       proc' = [proc EXCEPT ![c] = StartUpdateMany(IdleCall, item, params)]
  /\ UNCHANGED <<db, clock, nextId, concurrencyProtection, tx, batch, parseVars,
                 gets, serverVars>>

\* models[modelName].update(item, { where: params }) settles.
UpdateManyDone(c) ==
  /\ proc[c].pc = "updateMany"
  /\ db' = UpdateRows(db, proc[c].item, proc[c].params, clock)
  /\ proc' = [proc EXCEPT
                ![c] = UpdateManySettled(
                         proc[c], Cardinality(Matching(db, proc[c].params)))]
  /\ UNCHANGED <<clock, nextId, concurrencyProtection, tx, batch, parseVars,
                 gets, serverVars>>

-----------------------------------------------------------------------------
(* deleteAll.  The call record keeps the query as given and, in params,    *)
(* the where clause passed to destroy: the caller's object as _parseQuery  *)
(* left it.                                                                *)

\* deleteAll, up to its call of destroy; optionInfo is what _parseQuery
\* returned for queryAndParams.
StartDeleteAll(call, queryAndParams, optionInfo) ==
  LET started == [call EXCEPT !.op = "deleteAll", !.given = queryAndParams,
                              !.params = optionInfo.query]
  IN  IF optionInfo.threw
      THEN [started EXCEPT !.pc = "done", !.state = "threw"]
      ELSE IF Len(optionInfo.errors) = 0
      THEN [started EXCEPT !.pc = "destroyAll"]
      ELSE Reject(started, getErrorCollection(optionInfo.errors))

\* deleteAll, when destroy settles with result.
DeleteAllSettled(call, result) == Resolve(call, result)

\* The caller calls deleteAll with its query object.
CallDeleteAll(c) ==
  /\ proc[c].pc = "idle"
  /\ hasQuery
  /\ parsed' = parseQuery(hasQuery, query)
  /\ query' = parsed'.query
  /\ ppc' = "parsed"
  /\ proc' = [proc EXCEPT ![c] = StartDeleteAll(IdleCall, query, parsed')]
  /\ UNCHANGED <<rawQuery, hasQuery, gets, db, clock, nextId,
                 concurrencyProtection, tx, batch, serverVars>>

\* models[modelName].destroy({ where: queryAndParams, transaction }) settles;
\* deleteAll is called without a transaction.
DeleteAllDone(c) ==
  /\ proc[c].pc = "destroyAll"
  /\ LET matching == {r \in db : WhereMatches(r, proc[c].params)}
     IN  /\ db' = db \ matching
         /\ proc' = [proc EXCEPT
                       ![c] = DeleteAllSettled(proc[c], Cardinality(matching))]
  /\ UNCHANGED <<clock, nextId, concurrencyProtection, tx, batch, parseVars,
                 gets, serverVars>>

-----------------------------------------------------------------------------
(* getOne.                                                                 *)

\* getOne, up to its call of find.
StartGetOne(call, queryAndParams) ==
  [call EXCEPT !.op = "getOne", !.params = queryAndParams, !.pc = "findOne"]

\* getOne, when find settles with result (a row, or null).
GetOneSettled(call, result) ==
  IF result # <<>>
  THEN Resolve(call, result[1])
  ELSE Reject(call, getItemNotFoundError(call.params))

\* The caller calls getOne with the id of the path.
CallGetOne(c) ==
  /\ proc[c].pc = "idle"
  /\ \E i \in Ids :
       proc' = [proc EXCEPT ![c] = StartGetOne(IdleCall, [id |-> i])]
  /\ UNCHANGED <<db, clock, nextId, concurrencyProtection, tx, batch, parseVars,
                 gets, serverVars>>

\* models[modelName].find({ where: queryAndParams, include, raw }) settles.
GetOneDone(c) ==
  /\ proc[c].pc = "findOne"
  /\ proc' = [proc EXCEPT
                ![c] = GetOneSettled(proc[c], Find(db, proc[c].params))]
  /\ UNCHANGED <<db, clock, nextId, concurrencyProtection, tx, batch, parseVars,
                 gets, serverVars>>

\* find settles by rejecting: error => reject(error).
GetOneFailed(c) ==
  /\ proc[c].pc = "findOne"
  /\ proc' = [proc EXCEPT ![c] = Reject(proc[c], SequelizeConnectionError)]
  /\ UNCHANGED <<db, clock, nextId, concurrencyProtection, tx, batch, parseVars,
                 gets, serverVars>>

-----------------------------------------------------------------------------
(* The socket events that reach the lock registry.                         *)

\* The model names, and the data of a LOCK or UNLOCK event.
LockTypes == {<<"task">>, <<"user">>}
LockData == [type : LockTypes, item : Ids]

\* The connected sockets.
Sockets == {1, 2}

\* socket.on('LOCK', data => locks.add(data)), on any connected socket.
SocketLock(socket, data) ==
  /\ Len(locks.events) < MaxLockEvents
  /\ locks' = [registry |-> add(locks.registry, data),
               events |-> Append(locks.events,
                                 [name |-> "LOCK", socket |-> socket,
                                  data |-> data])]
  /\ UNCHANGED <<parseVars, callVars, gets, request, auth>>

\* socket.on('UNLOCK', data => locks.remove(data)), on any connected socket.
SocketUnlock(socket, data) ==
  /\ Len(locks.events) < MaxLockEvents
  /\ locks' = [registry |-> remove(locks.registry, data),
               events |-> Append(locks.events,
                                 [name |-> "UNLOCK", socket |-> socket,
                                  data |-> data])]
  /\ UNCHANGED <<parseVars, callVars, gets, request, auth>>

-----------------------------------------------------------------------------
(* ModelRoutes: the routes of one entity and their middleware arrays.      *)
(* request is the HTTP request in flight: the endpoint, the middleware     *)
(* arrays installed on the ModelRoutes instance, the position in the       *)
(* route's chain (stage) and in the array being processed (counter), the   *)
(* middleware invocations and continuations so far, the arrays whose final *)
(* next was invoked, the Mediator method the handler called and the        *)
(* responses sent by middleware.                                           *)

ArrayNames ==
  {"globalMiddleware", "getMiddleware", "changeMiddleware", "deleteMiddleware",
   "batchMiddleware", "getAllMiddleware", "getOneMiddleware",
   "createOneMiddleware", "updateOneMiddleware", "deleteOneMiddleware",
   "deleteAllMiddleware"}

\* createRoutes: per endpoint, the chain before the handler and the
\* Mediator method the handler calls.
Routes ==
  [createOne |->
     [chain |-> <<"globalMiddleware", "changeMiddleware", "createOneMiddleware",
                  "validateJSON">>,
      call |-> "createOne"],
   batch |->
     [chain |-> <<"globalMiddleware", "batchMiddleware", "validateJSON">>,
      call |-> "batchCreateUpdateDelete"],
   getAll |->
     [chain |-> <<"globalMiddleware", "getMiddleware", "getAllMiddleware">>,
      call |-> "getAll"],
   getOne |->
     [chain |-> <<"globalMiddleware", "getMiddleware", "getOneMiddleware">>,
      call |-> "getOne"],
   updateOne |->
     [chain |-> <<"globalMiddleware", "changeMiddleware", "updateOneMiddleware",
                  "validateJSON">>,
      call |-> "updateOne"],
   updateMany |->
     [chain |-> <<"globalMiddleware", "changeMiddleware", "createOneMiddleware",
                  "validateJSON">>,
      call |-> "updateMany"],
   deleteOne |->
     [chain |-> <<"globalMiddleware", "deleteMiddleware", "deleteOneMiddleware",
                  "validateJSON">>,
      call |-> "deleteOne"],
   deleteAll |->
     [chain |-> <<"globalMiddleware", "deleteMiddleware", "deleteAllMiddleware",
                  "validateJSON">>,
      call |-> "deleteAll"],
   authenticate |-> [chain |-> <<"validateJSON">>, call |-> "authenticate"]]

Endpoints == DOMAIN Routes

\* The constructor's arrays, all empty.
NoMiddleware == [a \in ArrayNames |-> <<>>]

\* The middleware functions of the repository, and the arrays a ModelRoutes
\* instance may be given: addDefaultRoutes installs [verifyToken] as
\* globalMiddleware and, for users, [hashPassword] as changeMiddleware.
Middlewares == {"verifyToken", "hashPassword"}
Installations ==
  {[NoMiddleware EXCEPT !.globalMiddleware = g, !.changeMiddleware = c] :
     g \in SeqsUpTo(Middlewares, MaxMiddlewares),
     c \in {<<>>, <<"hashPassword">>}}

NoRequest ==
  [pc |-> "none", endpoint |-> "", arrays |-> NoMiddleware, stage |-> 0,
   counter |-> 0, invoked |-> <<>>, continued |-> <<>>, nexts |-> <<>>,
   call |-> "", responses |-> 0]

Invocation(array, index, name) ==
  [array |-> array, index |-> index, name |-> name]

\* callNext that passes on after the array's first middleware.
RECURSIVE Dispatch(_)
callNextFirstOnly(r) ==
  LET array == Routes[r.endpoint].chain[r.stage]
      nextMiddleware == r.arrays[array]
  IN  IF r.counter < 1 /\ r.counter < Len(nextMiddleware)
      THEN [r EXCEPT !.counter = r.counter + 1, !.pc = "middleware",
                     !.invoked = Append(@, Invocation(array, r.counter + 1,
                                          nextMiddleware[r.counter + 1]))]
      ELSE Dispatch([r EXCEPT !.nexts = Append(@, array),
                              !.stage = r.stage + 1, !.counter = 0])

\* callNext of _callMiddleware: the next middleware of the array is
\* invoked with callNext as its continuation, or, the array done, next().
callNext(r) ==
  LET array == Routes[r.endpoint].chain[r.stage]
      nextMiddleware == r.arrays[array]
  IN  IF r.counter < Len(nextMiddleware)
      THEN [r EXCEPT !.counter = r.counter + 1, !.pc = "middleware",
                     !.invoked = Append(@, Invocation(array, r.counter + 1,
                                          nextMiddleware[r.counter + 1]))]
      ELSE Dispatch([r EXCEPT !.nexts = Append(@, array),
                              !.stage = r.stage + 1, !.counter = 0])

\* The router moves to the element at r.stage of the route: the handler,
\* validateJSON, or the wrapper of a middleware array, which runs
\* _callMiddleware and so callNext.
Dispatch(r) ==
  LET route == Routes[r.endpoint]
  IN  IF r.stage > Len(route.chain)
      THEN [r EXCEPT !.pc = "handler", !.call = route.call]
      ELSE IF route.chain[r.stage] = "validateJSON"
      THEN [r EXCEPT !.pc = "middleware",
                     !.invoked = Append(@, Invocation("validateJSON", 1,
                                                      "validateJSON"))]
      ELSE callNext(r)

\* The invocation the request waits on.
Current(r) == r.invoked[Len(r.invoked)]

\* A request arrives at an endpoint of the entity (or at /authenticate).
Receive ==
  /\ request.pc = "none"
  /\ \E endpoint \in Endpoints :
       request' = Dispatch([request EXCEPT !.endpoint = endpoint, !.stage = 1])
  /\ UNCHANGED <<parseVars, callVars, gets, locks, auth>>

\* The running middleware calls its continuation.
MiddlewareContinues ==
  /\ request.pc = "middleware"
  /\ LET r == [request EXCEPT !.continued = Append(@, Current(request))]
     IN  request' = IF Current(request).array = "validateJSON"
                    THEN Dispatch([r EXCEPT !.stage = r.stage + 1])
                    ELSE callNext(r)
  /\ UNCHANGED <<parseVars, callVars, gets, locks, auth>>

\* verifyToken or validateJSON sends an error response and does not call
\* its continuation (missing, expired or invalid token; wrong media type or
\* a body on DELETE).
MiddlewareResponds ==
  /\ request.pc = "middleware"
  /\ Current(request).name \in {"verifyToken", "validateJSON"}
  /\ request' = [request EXCEPT !.pc = "ended", !.responses = @ + 1]
  /\ UNCHANGED <<parseVars, callVars, gets, locks, auth>>

\* bcrypt.genSalt or bcrypt.hash fails in hashPassword: the callback calls
\* Errors.getHashFailedError() without the error whose message it reads,
\* which throws before handleError is reached; no response is sent and the
\* continuation is not called.
MiddlewareThrows ==
  /\ request.pc = "middleware"
  /\ Current(request).name = "hashPassword"
  /\ request' = [request EXCEPT !.pc = "threw"]
  /\ UNCHANGED <<parseVars, callVars, gets, locks, auth>>

-----------------------------------------------------------------------------
(* authenticate, the handler of POST /authenticate.  auth.sent is the      *)
(* sequence of responses the handler has sent on res.                      *)

NoAuth == [pc |-> "none", sent |-> <<>>]

\* ModelRoutes.handleError(res, error): one response.
handleError(a, error) == [a EXCEPT !.sent = Append(@, error)]

\* authenticate(req, res), up to findOne.
AuthStarted(a, hasPassword) ==
  IF hasPassword THEN [a EXCEPT !.pc = "findOne"]
  ELSE [handleError(a, "InvalidAuthentication") EXCEPT !.pc = "done"]

\* findOne settles: with the user, with null, or by rejecting.
AuthFound(a, user) ==
  CASE user = "found"    -> [a EXCEPT !.pc = "compare"]
    [] user = "none"     -> [handleError(a, "InvalidAuthentication")
                               EXCEPT !.pc = "done"]
    [] user = "rejected" -> [handleError(a, "SequelizeConnectionError")
                               EXCEPT !.pc = "done"]

\* The callback of bcrypt.compare(password, user.password, (err, result)).
AuthCompared(a, err, result) ==
  LET a1 == IF err THEN handleError(a, "InvalidAuthentication") ELSE a
      a2 == IF result
            THEN [a1 EXCEPT !.sent = Append(@, "user with token")]
            ELSE handleError(a1, "InvalidAuthentication")
  IN  [a2 EXCEPT !.pc = "done"]

\* The handler is reached: authenticate runs up to findOne.
Authenticate ==
  /\ request.pc = "handler" /\ request.call = "authenticate"
  /\ auth.pc = "none"
  /\ \E hasPassword \in BOOLEAN : auth' = AuthStarted(auth, hasPassword)
  /\ UNCHANGED <<parseVars, callVars, gets, locks, request>>

AuthFindOneSettled ==
  /\ auth.pc = "findOne"
  /\ \E user \in {"found", "none", "rejected"} : auth' = AuthFound(auth, user)
  /\ UNCHANGED <<parseVars, callVars, gets, locks, request>>

\* bcrypt.compare calls back: with an error, or with the result.
AuthCompareSettled ==
  /\ auth.pc = "compare"
  /\ \E outcome \in {"error", "match", "mismatch"} :
       auth' = AuthCompared(auth, outcome = "error", outcome = "match")
  /\ UNCHANGED <<parseVars, callVars, gets, locks, request>>

-----------------------------------------------------------------------------
(* Specifications.                                                         *)

InitialRows ==
  {[id |-> 1, description |-> "a", created_at |-> 0, updated_at |-> 1]}

NotParsed ==
  [options |-> NoOptions, errors |-> <<>>, query |-> <<>>, threw |-> FALSE]

InitParse(queries) ==
  /\ hasQuery = TRUE
  /\ rawQuery \in queries
  /\ query = rawQuery
  /\ parsed = NotParsed
  /\ ppc = "ready"
  /\ gets = <<>>

\* The caller passes no query object.
InitNoQuery ==
  /\ hasQuery = FALSE
  /\ rawQuery = <<>>
  /\ query = <<>>
  /\ parsed = NotParsed
  /\ ppc = "ready"
  /\ gets = <<>>

\* No socket event and no HTTP request has arrived.
InitServer ==
  /\ locks = NoLocks
  /\ request = NoRequest
  /\ auth = NoAuth

InitStore ==
  /\ db = InitialRows
  /\ clock = 1
  /\ nextId = 2
  /\ tx = NoTx
  /\ batch = IdleBatch
  /\ InitServer

\* Mediator calls racing on the table.
Init ==
  /\ InitParse({<<>>})
  /\ InitStore
  /\ concurrencyProtection \in BOOLEAN
  /\ proc = [c \in Callers |-> IdleCall]

Next ==
  \/ \E c \in DOMAIN proc : CallCreateOne(c)
  \/ \E c \in DOMAIN proc : CallUpdateOne(c)
  \/ \E c \in DOMAIN proc : CallDeleteOne(c)
  \/ \E c \in DOMAIN proc : CreateDone(c)
  \/ \E c \in DOMAIN proc : UpdateFound(c)
  \/ \E c \in DOMAIN proc : UpdateApplied(c)
  \/ \E c \in DOMAIN proc : UpdateReloaded(c)
  \/ \E c \in DOMAIN proc : DeleteDone(c)
  \/ \E c \in DOMAIN proc : StatementFailed(c)
  \/ Tick

Spec == Init /\ [][Next]_vars

\* The callers before c have made their calls.
InTurn(c) == Quiet /\ \A d \in 1..(c - 1) : proc[d].pc = "done"

\* The same calls made one after the other, the callers in turn: a call
\* starts when none is in flight.
NextSeq ==
  \/ \E c \in DOMAIN proc : InTurn(c) /\ CallCreateOne(c)
  \/ \E c \in DOMAIN proc : InTurn(c) /\ CallUpdateOne(c)
  \/ \E c \in DOMAIN proc : InTurn(c) /\ CallDeleteOne(c)
  \/ \E c \in DOMAIN proc : CreateDone(c)
  \/ \E c \in DOMAIN proc : UpdateFound(c)
  \/ \E c \in DOMAIN proc : UpdateApplied(c)
  \/ \E c \in DOMAIN proc : UpdateReloaded(c)
  \/ \E c \in DOMAIN proc : DeleteDone(c)
  \/ \E c \in DOMAIN proc : StatementFailed(c)
  \/ Tick

\* The mediator of the sequential calls has concurrencyProtection, with
\* which every path of updateOne is taken.
InitSeq ==
  /\ InitParse({<<>>})
  /\ InitStore
  /\ concurrencyProtection = TRUE
  /\ proc = [c \in Callers |-> IdleCall]

SpecSeq == InitSeq /\ [][NextSeq]_vars

\* updateOne and deleteOne calls racing on the table.
NextRace ==
  \/ \E c \in DOMAIN proc : CallUpdateOne(c)
  \/ \E c \in DOMAIN proc : CallDeleteOne(c)
  \/ \E c \in DOMAIN proc : UpdateFound(c)
  \/ \E c \in DOMAIN proc : UpdateApplied(c)
  \/ \E c \in DOMAIN proc : UpdateReloaded(c)
  \/ \E c \in DOMAIN proc : DeleteDone(c)
  \/ \E c \in DOMAIN proc : StatementFailed(c)

SpecRace == Init /\ [][NextRace]_vars

\* One batch request and its per-item calls.
InitBatch ==
  /\ InitParse({<<>>})
  /\ InitStore
  /\ concurrencyProtection \in BOOLEAN
  /\ proc = <<>>

NextBatch ==
  \/ BatchCall
  \/ BatchBegun
  \/ BatchItemCalls
  \/ BatchCollect
  \/ BatchBeginFailed
  \/ \E c \in DOMAIN proc : CreateDone(c)
  \/ \E c \in DOMAIN proc : UpdateFound(c)
  \/ \E c \in DOMAIN proc : UpdateApplied(c)
  \/ \E c \in DOMAIN proc : UpdateReloaded(c)
  \/ \E c \in DOMAIN proc : DeleteDone(c)
  \/ \E c \in DOMAIN proc : StatementFailed(c)
  \/ BatchJoin
  \/ TxCommitted
  \/ TxCommitFailed
  \/ TxRolledBack

SpecBatch == InitBatch /\ [][NextBatch]_vars

\* The batch when every provider call settles: a step that can be taken
\* (the transaction begins or fails to, a per-item statement settles, the
\* join runs, commit or rollback settles) is taken.
SpecBatchFair == InitBatch /\ [][NextBatch]_vars /\ WF_vars(NextBatch)

\* No request has been made.
Fresh ==
  /\ gets = <<>>
  /\ batch.pc = "idle"
  /\ \A c \in DOMAIN proc : proc[c].pc = "idle"

\* No call, and no getAll, is in flight.
NoneInFlight ==
  /\ Quiet
  /\ \A i \in DOMAIN gets : gets[i].state # "pending"

\* The mediator has one caller, who makes one call.
OneCaller == Len(proc) = 1

\* A mediator on which one batch is made, or createOne, updateOne and
\* deleteOne calls one after the other (the callers in turn), or one call
\* of any of the seven operations other than the batch.  The mediator has
\* concurrencyProtection, with which every path of updateOne is taken.
InitService ==
  /\ InitParse({<<>>})
  /\ InitStore
  /\ concurrencyProtection = TRUE
  /\ proc \in {<<>>, [c \in Callers |-> IdleCall], <<IdleCall>>}

NextService ==
  \/ proc = <<>> /\ BatchCall
  \/ BatchBegun
  \/ BatchItemCalls
  \/ BatchCollect
  \/ BatchBeginFailed
  \/ \E c \in DOMAIN proc : NoneInFlight /\ InTurn(c) /\ CallCreateOne(c)
  \/ \E c \in DOMAIN proc : NoneInFlight /\ InTurn(c) /\ CallUpdateOne(c)
  \/ \E c \in DOMAIN proc : NoneInFlight /\ InTurn(c) /\ CallDeleteOne(c)
  \/ \E c \in DOMAIN proc : OneCaller /\ Fresh /\ CallGetOne(c)
  \/ \E c \in DOMAIN proc : OneCaller /\ Fresh /\ CallUpdateMany(c)
  \/ \E c \in DOMAIN proc : OneCaller /\ Fresh /\ CallDeleteAll(c)
  \/ OneCaller /\ Fresh /\ GetAll
  \/ \E c \in DOMAIN proc : CreateDone(c)
  \/ \E c \in DOMAIN proc : UpdateFound(c)
  \/ \E c \in DOMAIN proc : UpdateApplied(c)
  \/ \E c \in DOMAIN proc : UpdateReloaded(c)
  \/ \E c \in DOMAIN proc : DeleteDone(c)
  \/ \E c \in DOMAIN proc : StatementFailed(c)
  \/ \E c \in DOMAIN proc : GetOneDone(c)
  \/ \E c \in DOMAIN proc : GetOneFailed(c)
  \/ \E c \in DOMAIN proc : UpdateManyDone(c)
  \/ \E c \in DOMAIN proc : DeleteAllDone(c)
  \/ GetAllDone
  \/ GetAllFailed
  \/ BatchJoin
  \/ TxCommitted
  \/ TxCommitFailed
  \/ TxRolledBack

SpecService == InitService /\ [][NextService]_vars

\* The socket server's LOCK and UNLOCK events on the registry.
InitLocks ==
  /\ InitParse({<<>>})
  /\ InitStore
  /\ concurrencyProtection = TRUE
  /\ proc = <<>>

NextLocks ==
  \/ \E socket \in Sockets, data \in LockData : SocketLock(socket, data)
  \/ \E socket \in Sockets, data \in LockData : SocketUnlock(socket, data)

SpecLocks == InitLocks /\ [][NextLocks]_vars

\* One Mediator operation on the task table, after LOCK and UNLOCK events
\* on tasks have put the registry in some state.
LockedQueries == {<<>>, <<[k |-> "description", v |-> Str("a")]>>}
TaskData == [type : {<<"task">>}, item : Ids]
OneItemBatches ==
  {items \in BatchRequests :
     /\ items.createItems = <<>> /\ items.other = <<>>
     /\ Len(items.updateItems) + Len(items.deleteItems) = 1}

\* batchCreateUpdateDelete is called with one item to update or delete.
BatchCallOne ==
  /\ batch.pc = "idle"
  /\ \E items \in OneItemBatches : batch' = BatchValidated(items, Empty)
  /\ UNCHANGED <<db, clock, nextId, concurrencyProtection, proc, tx, parseVars,
                 gets, serverVars>>

InitLocked ==
  /\ InitParse(LockedQueries)
  /\ InitStore
  /\ concurrencyProtection \in BOOLEAN
  /\ proc = <<IdleCall>>

NextLocked ==
  \/ \E data \in TaskData : Fresh /\ SocketLock(1, data)
  \/ \E data \in TaskData : Fresh /\ SocketUnlock(1, data)
  \/ \E c \in DOMAIN proc : Fresh /\ CallDeleteOne(c)
  \/ \E c \in DOMAIN proc : DeleteDone(c)
  \/ \E c \in DOMAIN proc : StatementFailed(c)
  \/ \E c \in DOMAIN proc : Fresh /\ CallUpdateOne(c)
  \/ \E c \in DOMAIN proc : UpdateFound(c)
  \/ \E c \in DOMAIN proc : UpdateApplied(c)
  \/ \E c \in DOMAIN proc : UpdateReloaded(c)
  \/ \E c \in DOMAIN proc : Fresh /\ CallUpdateMany(c)
  \/ \E c \in DOMAIN proc : UpdateManyDone(c)
  \/ \E c \in DOMAIN proc : Fresh /\ CallDeleteAll(c)
  \/ \E c \in DOMAIN proc : DeleteAllDone(c)
  \/ Fresh /\ BatchCallOne
  \/ BatchBegun
  \/ BatchItemCalls
  \/ BatchCollect
  \/ BatchJoin
  \/ TxCommitted
  \/ TxRolledBack

SpecLocked == InitLocked /\ [][NextLocked]_vars

\* One HTTP request to the routes of a ModelRoutes instance whose arrays
\* are installed, or to /authenticate.
InitRoutes ==
  /\ InitParse({<<>>})
  /\ db = InitialRows /\ clock = 1 /\ nextId = 2 /\ tx = NoTx
  /\ batch = IdleBatch
  /\ concurrencyProtection = TRUE
  /\ proc = <<>>
  /\ locks = NoLocks
  /\ auth = NoAuth
  /\ \E arrays \in Installations : request = [NoRequest EXCEPT !.arrays = arrays]

NextRoutes ==
  \/ Receive
  \/ MiddlewareContinues
  \/ MiddlewareResponds
  \/ MiddlewareThrows
  \/ Authenticate
  \/ AuthFindOneSettled
  \/ AuthCompareSettled

SpecRoutes == InitRoutes /\ [][NextRoutes]_vars

\* _parseQuery applied to one query object.
InitQuery ==
  /\ InitParse(Queries) \/ InitNoQuery
  /\ InitStore
  /\ concurrencyProtection = TRUE
  /\ proc = <<>>

NextParse == ParseQuery

SpecParse == InitQuery /\ [][NextParse]_vars

\* getAll called again and again with one query object, the table unchanged.
QueryRows ==
  {[id |-> 1, description |-> "a", created_at |-> 0, updated_at |-> 1],
   [id |-> 2, description |-> "b", created_at |-> 1, updated_at |-> 1]}

InitGetAll ==
  /\ InitParse(Queries) \/ InitNoQuery
  /\ db = QueryRows
  /\ clock = 1
  /\ nextId = 3
  /\ tx = NoTx
  /\ batch = IdleBatch
  /\ InitServer
  /\ concurrencyProtection = TRUE
  /\ proc = <<>>

NextGetAll ==
  \/ GetAll
  \/ GetAllDone
  \/ GetAllFailed

SpecGetAll == InitGetAll /\ [][NextGetAll]_vars

\* One request to the Mediator and its validation checkpoint: a caller with
\* a query object calls getAll or deleteAll, a caller without one calls
\* createOne, updateOne, updateMany or batchCreateUpdateDelete.
InitRequest ==
  /\ InitParse(Queries) \/ InitNoQuery
  /\ db = QueryRows
  /\ clock = 1
  /\ nextId = 3
  /\ tx = NoTx
  /\ batch = IdleBatch
  /\ InitServer
  /\ concurrencyProtection = TRUE
  /\ proc = <<IdleCall>>

NextRequest ==
  \/ hasQuery /\ Fresh /\ GetAll
  \/ GetAllDone
  \/ GetAllFailed
  \/ \E c \in DOMAIN proc : Fresh /\ CallDeleteAll(c)
  \/ \E c \in DOMAIN proc : DeleteAllDone(c)
  \/ \E c \in DOMAIN proc : ~hasQuery /\ Fresh /\ CallCreateOne(c)
  \/ \E c \in DOMAIN proc : CreateDone(c)
  \/ \E c \in DOMAIN proc : ~hasQuery /\ Fresh /\ CallUpdateOneWhere(c)
  \/ \E c \in DOMAIN proc : UpdateFound(c)
  \/ \E c \in DOMAIN proc : UpdateApplied(c)
  \/ \E c \in DOMAIN proc : UpdateReloaded(c)
  \/ \E c \in DOMAIN proc : ~hasQuery /\ Fresh /\ CallUpdateMany(c)
  \/ \E c \in DOMAIN proc : UpdateManyDone(c)
  \/ \E c \in DOMAIN proc : StatementFailed(c)
  \/ Fresh /\ Tick
  \/ ~hasQuery /\ Fresh /\ BatchCall

SpecRequest == InitRequest /\ [][NextRequest]_vars

-----------------------------------------------------------------------------
(* Properties of the batch (SpecBatch).                                    *)

Failed(c) == proc[c].pc = "done" /\ proc[c].state = "rejected"
Succeeded(c) == proc[c].pc = "done" /\ proc[c].state = "resolved"

\* The call failed because the provider rejected one of its statements:
\* the provider's error is passed on unchanged.
ProviderFailure(call) ==
  call.state = "rejected" /\ call.error = <<SequelizeConnectionError>>

\* C1: once a per-item createOne, updateOne or deleteOne of the batch has
\* failed, the transaction is never committed (it stays open until it is
\* rolled back), the batch, when it settles, fails with a BatchError, and
\* the table never shows a write of the batch.
C1_FailedItemRollsBack ==
  (\E c \in DOMAIN proc : Failed(c)) =>
    /\ tx.state \in {"open", "rollingBack", "rolledBack"}
    /\ db = InitialRows
    /\ batch.pc = "done" =>
         /\ batch.state = "rejected"
         /\ batch.error[1].name = "BatchError"

\* C1, its case: a create succeeded and is pending in the transaction, an
\* update failed, and the transaction was rolled back.
C1_Witness ==
  /\ tx.state = "rolledBack"
  /\ \E c \in DOMAIN proc : proc[c].list = "create" /\ Succeeded(c)
  /\ \E c \in DOMAIN proc : proc[c].list = "update" /\ Failed(c)
  /\ \E i \in 1..Len(tx.log) : tx.log[i].op = "create"

\* C2: a BatchError of the validation phase carries in createErrors,
\* updateErrors and deleteErrors exactly the field errors of the items of
\* createItems, updateItems and deleteItems.
C2_ValidationErrorsByList ==
  (batch.pc = "done" /\ tx.state = "none" /\ batch.state = "rejected"
     /\ batch.error[1].name = "BatchError") =>
    /\ batch.error[1].createErrors = ListErrors(batch.items.createItems)
    /\ batch.error[1].updateErrors = ListErrors(batch.items.updateItems)
    /\ batch.error[1].deleteErrors = ListErrors(batch.items.deleteItems)

\* The request has a validation error: another top-level key, or an
\* unknown field in an item of one of the lists.
UnknownKeys(item) == DOMAIN item \ rawAttributes
HasValidationError(items) ==
  \/ Len(items.other) > 0
  \/ \E i \in 1..Len(items.createItems) : UnknownKeys(items.createItems[i]) # {}
  \/ \E i \in 1..Len(items.updateItems) : UnknownKeys(items.updateItems[i]) # {}
  \/ \E i \in 1..Len(items.deleteItems) : UnknownKeys(items.deleteItems[i]) # {}

\* C3: a batch request with a validation error is rejected without a
\* transaction being begun and without any per-item call (so no create,
\* find, update or destroy), and the table is unchanged.
C3_InvalidBatchTouchesNothing ==
  (batch.pc # "idle" /\ HasValidationError(batch.items)) =>
    /\ batch.pc = "done" /\ batch.state = "rejected"
    /\ tx = NoTx
    /\ proc = <<>>
    /\ db = InitialRows /\ nextId = 2

\* C3, its case: the lists hold valid items to write and one invalid item.
C3_Witness ==
  /\ batch.pc = "done"
  /\ batch.items.other = <<>>
  /\ HasValidationError(batch.items)
  /\ \E i \in 1..Len(batch.items.createItems) :
       UnknownKeys(batch.items.createItems[i]) = {}

\* C4: the batch is resolved only once its transaction has been committed.
C4_ResolvedOnlyCommitted ==
  batch.state = "resolved" => tx.state = "committed"

-----------------------------------------------------------------------------
(* Properties of updateOne (Spec, SpecSeq).                                *)

Protected(c) ==
  /\ concurrencyProtection
  /\ proc[c].op = "updateOne"
  /\ "updated_at" \in DOMAIN proc[c].given

\* C5: with concurrencyProtection, an updateOne that found its row ends as
\* follows.  If the item's updated_at is older than the found row's, the
\* call fails with the ConcurrencyError that carries the found row and it
\* has issued no update.  Otherwise the call has issued its update and,
\* unless the provider rejected the update or the reload, the update has
\* changed the row and the call is resolved with the row's id.
C5_StaleRejectedFreshApplied ==
  \A c \in DOMAIN proc :
    (Protected(c) /\ proc[c].pc = "done" /\ proc[c].foundItem # <<>>) =>
      IF proc[c].given.updated_at < proc[c].foundItem[1].updated_at
      THEN /\ proc[c].state = "rejected"
           /\ proc[c].error = <<getConcurrencyError(proc[c].foundItem[1])>>
           /\ proc[c].itemUpdatedCount = -1
      ELSE IF ProviderFailure(proc[c])
      THEN proc[c].itemUpdatedCount \in {-1, 1}
      ELSE /\ proc[c].state = "resolved"
           /\ proc[c].itemUpdatedCount = 1
           /\ proc[c].result[1].id = proc[c].params.id

\* C5, its cases: one call was rejected as stale, and one call with the
\* stored updated_at and one with a newer updated_at were applied.
C5_Witness ==
  /\ \E c \in DOMAIN proc :
       /\ Protected(c) /\ proc[c].pc = "done" /\ proc[c].foundItem # <<>>
       /\ proc[c].given.updated_at < proc[c].foundItem[1].updated_at
  /\ \E c \in DOMAIN proc :
       /\ Protected(c) /\ proc[c].pc = "done" /\ proc[c].foundItem # <<>>
       /\ proc[c].given.updated_at >= proc[c].foundItem[1].updated_at
       /\ proc[c].state = "resolved"

\* C6: with concurrencyProtection, whenever a call's update is written, no
\* row it is written over has an updated_at newer than the one the caller
\* supplied.
C6_NoWriteOverUnseenVersion ==
  [][\A c \in DOMAIN proc :
       (Protected(c) /\ proc[c].pc = "update" /\ proc'[c].pc # "update"
          /\ ~ProviderFailure(proc'[c])) =>
         \A r \in Matching(db, proc[c].params) :
           r.updated_at <= proc[c].given.updated_at]_vars

-----------------------------------------------------------------------------
(* Properties of getAll (SpecGetAll) and of _parseQuery (SpecParse).       *)

\* C7: a second getAll with the same query object, the table unchanged, is
\* given the query the first was given, passes findAll the same options
\* and, both resolved, returns the same rows in the same order.
C7_SecondGetAllSame ==
  Len(gets) >= 2 =>
    /\ gets[2].given = gets[1].given
    /\ gets[2].found = gets[1].found
    /\ gets[2].options = gets[1].options
    /\ (gets[1].state = "resolved" /\ gets[2].state = "resolved") =>
         gets[2].result = gets[1].result

Reserved == {"fields", "sort", "limit", "offset"}
Unknown(name) == name \notin rawAttributes

\* The field names a query names that the schema does not have: as a
\* filter key, in fields (a "-" dropped) and in sort (a "-" or "+" dropped).
UnknownNamed(q) ==
  {Part("", q[i].k) : i \in {j \in 1..Len(q) :
      toLowerCase(q[j].k) \notin Reserved /\ Unknown(q[j].k)}}
  \cup UNION {{IF q[i].v[n].pre = "-" THEN DropFirst(q[i].v[n]) ELSE q[i].v[n] :
                 n \in {m \in 1..Len(q[i].v) :
                   q[i].v[m].pre = "+" \/ Unknown(q[i].v[m].name)}} :
              i \in {j \in 1..Len(q) : toLowerCase(q[j].k) = "fields"}}
  \cup UNION {{DropFirst(q[i].v[n]) :
                 n \in {m \in 1..Len(q[i].v) : Unknown(q[i].v[m].name)}} :
              i \in {j \in 1..Len(q) : toLowerCase(q[j].k) = "sort"}}

\* The query with its reserved keys written in lower case.
LowerCased(q) == [i \in 1..Len(q) |-> [k |-> toLowerCase(q[i].k), v |-> q[i].v]]

Reported(errors) == {errors[i] : i \in 1..Len(errors)}

\* C8: for a query, its reserved keys in lower case, that names a field the
\* schema does not have, _parseQuery returns errors with a
\* MissingFieldError for each such field, and does not set options.where.
C8_UnknownFieldReported ==
  (ppc = "parsed" /\ LowerCased(rawQuery) = rawQuery
     /\ UnknownNamed(rawQuery) # {}) =>
    /\ ~parsed.threw
    /\ \A f \in UnknownNamed(rawQuery) :
         getMissingFieldError(f) \in Reported(parsed.errors)
    /\ ~parsed.options.where.set

IsMixed(value) ==
  /\ \E n \in 1..Len(value) : value[n].pre = "-"
  /\ \E n \in 1..Len(value) : value[n].pre # "-"

\* C9: for a query { fields: value } whose value mixes included and
\* excluded names, the errors hold a FieldIncludeExcludeError and a
\* MissingFieldError for every name of the value, included or excluded,
\* that the schema does not have.
C9_MixedFieldsAllChecked ==
  (ppc = "parsed" /\ Len(rawQuery) = 1 /\ rawQuery[1].k = "fields"
     /\ IsMixed(rawQuery[1].v)) =>
    /\ getFieldIncludeExcludeError \in Reported(parsed.errors)
    /\ \A f \in UnknownNamed(rawQuery) :
         getMissingFieldError(f) \in Reported(parsed.errors)

\* C10: a query with a reserved key in another letter case gives the
\* options and errors of the query with that key in lower case, and the
\* key does not stay in the query that becomes where.
C10_ReservedKeysAnyCase ==
  (ppc = "parsed" /\ hasQuery /\ DistinctKeys(LowerCased(rawQuery))) =>
    /\ ~parsed.threw
    /\ parsed.options = _parseQuery(LowerCased(rawQuery)).options
    /\ parsed.errors = _parseQuery(LowerCased(rawQuery)).errors
    /\ \A i \in 1..Len(parsed.query) :
         toLowerCase(parsed.query[i].k) \notin Reserved

\* The entries of a query whose keys are not reserved, in the query's order.
NonReserved(q) == SelectSeq(q, LAMBDA e : toLowerCase(e.k) \notin Reserved)

WhereIffNoErrors ==
  /\ parsed.options.where.set <=> parsed.errors = <<>>
  /\ parsed.options.where.set =>
       parsed.options.where.query = NonReserved(rawQuery)

\* C11: for every query, an absent one included, a _parseQuery that returns
\* has set options.where if and only if errors is empty, and where then
\* holds exactly the query's entries whose keys are not reserved, values
\* unchanged.
C11_WhereIffNoErrors ==
  (ppc = "parsed" /\ ~parsed.threw) => WhereIffNoErrors

\* C11, amended: the same for every query object that is given and whose
\* parse returns; for an absent query _parseQuery returns no errors and
\* leaves where unset.
C11_WhereIffNoErrorsGiven ==
  /\ (ppc = "parsed" /\ hasQuery /\ ~parsed.threw) => WhereIffNoErrors
  /\ (ppc = "parsed" /\ ~hasQuery) =>
       parsed.errors = <<>> /\ ~parsed.options.where.set

\* C11, its case: a query with a reserved key and a filter key was parsed
\* without errors, and where holds the filter.
C11_Witness ==
  /\ ppc = "parsed" /\ hasQuery
  /\ parsed.options.where.set
  /\ parsed.options.where.query # <<>>
  /\ \E i \in 1..Len(rawQuery) : toLowerCase(rawQuery[i].k) \in Reserved

-----------------------------------------------------------------------------
(* Properties of the validation checkpoints (SpecRequest).                 *)

\* The rule of getErrorCollection: e is the one error of errors, or the
\* ErrorCollection that holds errors.
Collapsed(errors, e) ==
  IF Len(errors) = 1 THEN e = errors[1]
  ELSE /\ e.id = 90100 /\ e.name = "ErrorCollection" /\ e.type = "collection"
       /\ e.errors = errors

\* The MissingFieldErrors of an item's unknown keys, in key order.
UnknownKeyErrors(item) ==
  LET unknown == SelectSeq(ObjectKeys(item), LAMBDA k : k \notin rawAttributes)
  IN  [i \in 1..Len(unknown) |-> getMissingFieldError(Part("", unknown[i]))]

\* C12: every collected validation failure follows the rule of
\* getErrorCollection: a getAll or deleteAll rejected for the parser's
\* errors, a createOne rejected for unknown keys and a batch rejected for
\* its top-level keys fail with the one error when there is exactly one,
\* and with the ErrorCollection of all of them, in order, otherwise.
C12_CollectedErrorsCollapse ==
  /\ \A i \in 1..Len(gets) :
       (gets[i].state = "rejected" /\ ~gets[i].found) =>
         Collapsed(parseQuery(hasQuery, gets[i].given).errors, gets[i].error[1])
  /\ \A c \in DOMAIN proc :
       (proc[c].op = "deleteAll" /\ proc[c].state = "rejected"
          /\ ~ProviderFailure(proc[c])) =>
         Collapsed(parseQuery(hasQuery, proc[c].given).errors, proc[c].error[1])
  /\ \A c \in DOMAIN proc :
       (proc[c].op = "createOne" /\ proc[c].state = "rejected"
          /\ UnknownKeys(proc[c].given) # {}) =>
         Collapsed(UnknownKeyErrors(proc[c].given), proc[c].error[1])
  /\ (batch.state = "rejected" /\ Len(batch.items.other) > 0) =>
       Collapsed(InvalidProperties(batch.items.other), batch.error[1])

\* C12, its case: a getAll was rejected with the collection of the two or
\* more errors of its query.
C12_Witness ==
  /\ Len(gets) = 1 /\ gets[1].state = "rejected"
  /\ Len(parseQuery(hasQuery, gets[1].given).errors) >= 2
  /\ gets[1].error[1].name = "ErrorCollection"

-----------------------------------------------------------------------------
(* Properties of the single calls (Spec, SpecRequest).                     *)

IsItemNotFound(error, params) ==
  /\ error.id = 90012 /\ error.name = "ItemNotFoundError"
  /\ error.item = Pick(params, {"id"})
  /\ error.modelName = "task"

\* C13: when the destroy of a deleteOne settles: if no row matches the
\* criteria the call fails with the ItemNotFoundError of the criteria's id
\* and the model name and the table is unchanged; otherwise the matching
\* row is removed and the call resolves with { id } of the criteria.  (A
\* destroy the provider rejects removes nothing and its error is passed
\* on.)
C13_DeleteOneFoundOrNot ==
  [][\A c \in DOMAIN proc :
       (proc[c].op = "deleteOne" /\ ~proc[c].inTx
          /\ proc[c].pc = "destroy" /\ proc'[c].pc = "done") =>
         IF ProviderFailure(proc'[c]) THEN db' = db
         ELSE IF Matching(db, proc[c].params) = {}
         THEN /\ proc'[c].state = "rejected"
              /\ IsItemNotFound(proc'[c].error[1], proc[c].params)
              /\ db' = db
         ELSE /\ proc'[c].state = "resolved"
              /\ proc'[c].result = <<[id |-> proc[c].params.id]>>
              /\ db' = db \ Matching(db, proc[c].params)
              /\ db' # db]_vars

\* C13, its cases: one deleteOne removed its row and another found none.
C13_Witness ==
  /\ \E c \in DOMAIN proc : proc[c].op = "deleteOne" /\ Succeeded(c)
  /\ \E c \in DOMAIN proc : proc[c].op = "deleteOne" /\ Failed(c)

\* C14: an updateOne whose lookup finds no row matching params fails with
\* ItemNotFoundError and changes nothing; and an updateOne whose update
\* finds no row any more (the row was removed after the lookup) fails with
\* ItemNotFoundError, the table unchanged.  (A find or update the provider
\* rejects fails the call with the provider's error instead.)
C14_UpdateOneNotFound ==
  [][\A c \in DOMAIN proc :
       (proc[c].op = "updateOne" /\ ~proc[c].inTx
          /\ proc[c].pc \in {"find", "update"} /\ proc'[c] # proc[c]
          /\ Matching(db, proc[c].params) = {}) =>
         /\ proc'[c].pc = "done" /\ proc'[c].state = "rejected"
         /\ \/ IsItemNotFound(proc'[c].error[1], proc[c].params)
            \/ ProviderFailure(proc'[c])
         /\ db' = db]_vars

\* C14, its case: an updateOne found its row, the row was removed, and the
\* update that affected no row made the call fail.
C14_Witness ==
  \E c \in DOMAIN proc :
    /\ proc[c].op = "updateOne" /\ Failed(c)
    /\ proc[c].foundItem # <<>>
    /\ proc[c].itemUpdatedCount = 0
    /\ proc[c].error[1].name = "ItemNotFoundError"

\* C15: every updateOne that succeeded is resolved with the id of the row
\* it updated and with that row's updated_at, whatever other calls did to
\* the row meanwhile.
C15_UpdateOneResult ==
  \A c \in DOMAIN proc :
    (proc[c].op = "updateOne" /\ Succeeded(c)) =>
      /\ DOMAIN proc[c].result[1] = {"id", "updated_at"}
      /\ proc[c].result[1].id = proc[c].params.id

\* C16: the patch an updateOne passes to update holds none of id,
\* created_at, updated_at and none of the keys of params, whatever item and
\* params are, so an update does not change a row's id.
C16_PatchHasNoKeyOrTimestamp ==
  /\ \A c \in DOMAIN proc :
       (proc[c].op = "updateOne" /\ proc[c].pc = "update") =>
         DOMAIN proc[c].item
           \cap ({"id", "created_at", "updated_at"} \cup DOMAIN proc[c].params) = {}
  /\ (\E c \in DOMAIN proc : proc[c].op = "updateOne") =>
       {r.id : r \in db} = {r.id : r \in QueryRows}

C18_CreateOneStripsAndPicks ==
  [][\A c \in DOMAIN proc :
       /\ (proc'[c].op = "createOne" /\ proc'[c].pc = "create") =>
            DOMAIN proc'[c].item \cap {"id", "created_at", "updated_at"} = {}
       /\ (proc[c].op = "createOne" /\ ~proc[c].inTx /\ proc[c].pc = "create"
             /\ proc'[c].state = "resolved") =>
            \E r \in db' \ db :
              /\ r.id = nextId /\ r.created_at = clock /\ r.updated_at = clock
              /\ DOMAIN proc'[c].result[1] = {"id", "created_at", "updated_at"}
              /\ \A k \in DOMAIN proc'[c].result[1] :
                   proc'[c].result[1][k] = r[k]]_vars

\* C18, its case: a createOne whose item came with an id and an updated_at
\* has succeeded.
C18_Witness ==
  \E c \in DOMAIN proc :
    /\ proc[c].op = "createOne" /\ Succeeded(c)
    /\ {"id", "updated_at"} \subseteq DOMAIN proc[c].given
    /\ proc[c].result[1].id # proc[c].given.id

\* C19: when the update of an updateMany settles, every row that matches
\* params has the item's description and a new updated_at and keeps its id
\* and created_at, every other row is as it was, and the call resolves with
\* { affectedCount }, the number of matching rows: with 0 when none
\* matches, and also when concurrencyProtection is on and the rows are
\* newer than the item's updated_at.  When the provider rejects the update
\* the rows are as they were and the call fails with the provider's error:
\* it never fails with ItemNotFoundError or ConcurrencyError.
C19_UpdateManyUnconditional ==
  [][\A c \in DOMAIN proc :
       (proc[c].op = "updateMany" /\ proc[c].pc = "updateMany"
          /\ proc'[c] # proc[c]) =>
       IF ProviderFailure(proc'[c]) THEN db' = db ELSE
         /\ proc'[c].pc = "done" /\ proc'[c].state = "resolved"
         /\ proc'[c].result =
              <<[affectedCount |-> Cardinality(Matching(db, proc[c].params))]>>
         /\ Cardinality(db') = Cardinality(db)
         /\ \A r \in db :
              IF Matches(r, proc[c].params)
              THEN [r EXCEPT !.description = proc[c].given.description,
                             !.updated_at = clock] \in db'
              ELSE r \in db']_vars

\* C19, its case: with concurrencyProtection on, an updateMany whose item
\* is older than the rows has updated them.
C19_Witness ==
  \E c \in DOMAIN proc :
    /\ proc[c].op = "updateMany" /\ Succeeded(c)
    /\ concurrencyProtection
    /\ "updated_at" \in DOMAIN proc[c].given
    /\ proc[c].result[1].affectedCount >= 1
    /\ \A r \in db : r.updated_at > proc[c].given.updated_at

\* The rows a deleteAll of the query q is to delete: those that match the
\* entries of q whose keys are not reserved.
ToDelete(q) == {r \in QueryRows : WhereMatches(r, NonReserved(q))}

\* What the claim expects of the deleteAll c that has ended (a destroy the
\* provider rejected deletes nothing).
DeleteAllEnded(c) ==
  LET errors == parseQuery(TRUE, proc[c].given).errors
  IN  IF errors # <<>>
      THEN /\ proc[c].state = "rejected"
           /\ proc[c].error = <<getErrorCollection(errors)>>
           /\ db = QueryRows
      ELSE IF ProviderFailure(proc[c])
      THEN db = QueryRows
      ELSE /\ proc[c].state = "resolved"
           /\ db = QueryRows \ ToDelete(proc[c].given)
           /\ proc[c].result = <<Cardinality(ToDelete(proc[c].given))>>

\* C20: a deleteAll that has ended: if the parser reports an error for the
\* query, it has failed with the collected errors and the table is as it
\* was; otherwise it has deleted exactly the rows that match the query's
\* non-reserved keys and is resolved with their number.
C20_DeleteAllByFilters ==
  \A c \in DOMAIN proc :
    (proc[c].op = "deleteAll" /\ proc[c].pc = "done") => DeleteAllEnded(c)

\* The same for the calls whose _parseQuery returned: it holds, so that
\* C20 fails only where the parse throws.
DeleteAllByFiltersReturned ==
  \A c \in DOMAIN proc :
    (proc[c].op = "deleteAll" /\ proc[c].pc = "done"
       /\ proc[c].state # "threw") => DeleteAllEnded(c)

-----------------------------------------------------------------------------
(* Properties of getAll and of limit and offset (SpecGetAll, SpecParse).   *)

\* What the claim expects of the i-th getAll.
GetAllEnded(i) ==
  LET optionInfo == parseQuery(hasQuery, gets[i].given)
  IN  IF optionInfo.errors # <<>>
      THEN /\ gets[i].state = "rejected"
           /\ Collapsed(optionInfo.errors, gets[i].error[1])
           /\ ~gets[i].found
      ELSE /\ gets[i].found
           /\ gets[i].options = optionInfo.options
           /\ CASE gets[i].state = "pending" -> TRUE
                [] gets[i].state = "resolved" ->
                     gets[i].result = FindAll(QueryRows, optionInfo.options)
                [] gets[i].state = "rejected" ->
                     gets[i].error = <<SequelizeConnectionError>>
                [] OTHER -> FALSE

\* C21: a getAll whose query has a parser error fails with the collected
\* errors and does not call findAll; one whose query has none calls findAll
\* with the parsed options and resolves with its rows; the table is never
\* changed.
C21_GetAllParsesThenFinds ==
  /\ \A i \in 1..Len(gets) : GetAllEnded(i)
  /\ db = QueryRows

\* The same for the calls whose _parseQuery returned: it holds, so that
\* C21 fails only where the parse throws.
GetAllParsesThenFindsReturned ==
  /\ \A i \in 1..Len(gets) : gets[i].state # "threw" => GetAllEnded(i)
  /\ db = QueryRows

\* The values of limit and offset a query is given, and the integer each
\* stands for (none for abc).
IntegerOf(value) ==
  CASE value = Str("5") -> <<5>>
    [] value = Str("1") -> <<1>>
    [] value = Str("0") -> <<0>>
    [] value = <<Part("-", "1")>> -> <<-1>>
    [] OTHER -> <<>>

\* The value of the one key of q that is key in some letter case.
ValueOf(q, key) ==
  q[CHOOSE i \in 1..Len(q) : toLowerCase(q[i].k) = key].v
Names1(q) == {toLowerCase(q[i].k) : i \in 1..Len(q)}

\* C22: in a parse that returns, limit is accepted, and options.limit is
\* its value, exactly when it is an integer of at least 1; otherwise
\* options.limit is unset and the errors hold a LimitError.  offset is
\* accepted exactly when it is an integer of at least 0; otherwise
\* options.offset is unset and the errors hold an OffsetError.
C22_LimitOffsetRanges ==
  (ppc = "parsed" /\ hasQuery /\ ~parsed.threw
     /\ DistinctKeys(LowerCased(rawQuery))) =>
    /\ "limit" \in Names1(rawQuery) =>
         LET n == IntegerOf(ValueOf(rawQuery, "limit"))
         IN  IF n # <<>> /\ n[1] >= 1
             THEN /\ parsed.options.limit = [set |-> TRUE, n |-> n[1]]
                  /\ getLimitError \notin Reported(parsed.errors)
             ELSE /\ ~parsed.options.limit.set
                  /\ getLimitError \in Reported(parsed.errors)
    /\ "offset" \in Names1(rawQuery) =>
         LET n == IntegerOf(ValueOf(rawQuery, "offset"))
         IN  IF n # <<>> /\ n[1] >= 0
             THEN /\ parsed.options.offset = [set |-> TRUE, n |-> n[1]]
                  /\ getOffsetError \notin Reported(parsed.errors)
             ELSE /\ ~parsed.options.offset.set
                  /\ getOffsetError \in Reported(parsed.errors)

\* C22, its case: limit=5 was accepted and offset=-1 refused in one query.
C22_Witness ==
  /\ ppc = "parsed" /\ hasQuery
  /\ parsed.options.limit = [set |-> TRUE, n |-> 5]
  /\ ~parsed.options.offset.set
  /\ getOffsetError \in Reported(parsed.errors)

-----------------------------------------------------------------------------
(* Properties of the batch's validation, transaction and join (SpecBatch). *)

\* The InvalidPropertyErrors expected of the other top-level keys.
ExpectedInvalidProperties(other) ==
  [i \in 1..Len(other) |->
     [id |-> 90016, name |-> "InvalidPropertyError", propertyName |-> other[i]]]

\* C23: a batch request with a top-level key other than createItems,
\* updateItems and deleteItems is rejected with one InvalidPropertyError
\* per such key, alone when there is one and in an ErrorCollection
\* otherwise, before any item is validated and without a transaction or a
\* per-item call.
C23_OtherKeysRejectedFirst ==
  (batch.pc # "idle" /\ batch.items.other # <<>>) =>
    /\ batch.pc = "done" /\ batch.state = "rejected"
    /\ Collapsed(ExpectedInvalidProperties(batch.items.other), batch.error[1])
    /\ batch.createErrors = <<>> /\ batch.updateErrors = <<>>
    /\ batch.deleteErrors = <<>>
    /\ tx = NoTx /\ proc = <<>>
    /\ db = InitialRows /\ nextId = 2

\* C23, its case: two other keys, and an item with an unknown field that
\* the item validation would have reported.
C23_Witness ==
  /\ batch.pc = "done"
  /\ Len(batch.items.other) = 2
  /\ batch.error[1].name = "ErrorCollection"
  /\ \E i \in 1..Len(batch.items.createItems) :
       UnknownKeys(batch.items.createItems[i]) # {}

\* The number of statements of kind op pending in the transaction.
Pending(op) == Cardinality({i \in 1..Len(tx.log) : tx.log[i].op = op})

\* The per-item calls of a list that have issued their write.
Issued(list, pcs) ==
  Cardinality({c \in DOMAIN proc : proc[c].list = list /\ proc[c].pc \in pcs})

\* A transaction is begun only by a batch that passed validation, and the
\* batch's calls carry it: their writes are pending in it, not in the table.
TransactionOfBatch ==
  /\ tx.state # "none" =>
       /\ batch.pc \in {"mapping", "executing", "done"}
       /\ ~HasValidationError(batch.items)
  /\ batch.pc \in {"mapping", "executing"} => tx.state = "open"
  /\ \A c \in DOMAIN proc : proc[c].list # "" => proc[c].inTx
  /\ (batch.pc # "idle" /\ tx.state # "committed") => db = InitialRows
  /\ batch.pc # "idle" =>
       /\ Pending("destroy") =
            Cardinality({c \in DOMAIN proc :
                           /\ proc[c].list = "delete" /\ proc[c].pc = "done"
                           /\ ~ProviderFailure(proc[c])})
       /\ Pending("create") =
            Cardinality({c \in DOMAIN proc :
                           proc[c].list = "create" /\ Succeeded(c)})
       /\ Pending("update") <= Issued("update", {"reload", "done"})

\* The seven operations other than the batch.
SingleOperations ==
  {"createOne", "getOne", "updateOne", "updateMany", "deleteOne", "deleteAll"}

\* A single call has no transaction: none is begun, committed or rolled
\* back while createOne, getOne, getAll, updateOne, updateMany, deleteOne
\* and deleteAll are called on their own, and none of them carries one.
NoTransactionOfSingleCalls ==
  ((\E c \in DOMAIN proc : proc[c].list = "") \/ gets # <<>>) =>
    /\ tx = NoTx
    /\ \A c \in DOMAIN proc : ~proc[c].inTx
    /\ \A c \in DOMAIN proc :
         proc[c].op \in SingleOperations \cup {"none"}

\* The transaction changes only in a step of the batch: no step of a
\* single call or of a getAll changes it.
OnlyBatchChangesTransaction ==
  tx' # tx =>
    /\ batch.pc # "idle"
    /\ gets' = gets
    /\ \A c \in DOMAIN proc : proc[c].list # ""

\* The transaction is begun once: it opens from no transaction, by the
\* batch that waits for it.
BegunOnce ==
  (tx'.state = "open" /\ tx.state # "open") =>
    /\ tx.state = "none"
    /\ batch.pc = "begin" /\ batch'.pc \in {"mapping", "executing"}

\* C24: a transaction is begun only by batchCreateUpdateDelete, once for a
\* batch that passes validation; createOne, getOne, getAll, updateOne,
\* updateMany, deleteOne and deleteAll called on their own begin, commit
\* and roll back none; every create, update and destroy of a batch carries
\* the batch's transaction.
C24_OneTransactionPerBatch ==
  /\ [](TransactionOfBatch /\ NoTransactionOfSingleCalls)
  /\ [][BegunOnce /\ OnlyBatchChangesTransaction]_vars

\* C24, its case: a batch's create and destroy were pending in its
\* transaction, which was committed.
C24_Witness ==
  /\ tx.state = "committed"
  /\ Pending("create") = 1 /\ Pending("destroy") = 1
  /\ db # InitialRows

\* The states of a transaction on which commit, or rollback, was invoked.
CommitInvoked == {"committing", "committed", "commitFailed"}
RollbackInvoked == {"rollingBack", "rolledBack"}
AllSettled == \A c \in DOMAIN proc : proc[c].pc = "done"

\* The decision is taken with every per-item call settled, it is taken by
\* the time the batch settles, and it is one of commit and rollback, which
\* is never followed by the other or taken again.
DecidedOnce ==
  /\ (tx.state = "open" /\ tx'.state # "open") =>
       /\ AllSettled /\ batch.queue = <<>>
       /\ tx'.state \in {"committing", "rollingBack"}
       /\ batch.pc = "executing" /\ batch'.pc = "done"
  /\ tx.state = "committing" =>
       tx'.state \in {"committing", "committed", "commitFailed"}
  /\ tx.state = "rollingBack" => tx'.state \in {"rollingBack", "rolledBack"}
  /\ tx.state \in {"committed", "commitFailed", "rolledBack"} =>
       tx'.state = tx.state

\* C25: for a batch that passed validation the commit-or-rollback decision
\* is taken only once every per-item call has settled, and exactly one of
\* commit and rollback is invoked on the transaction, once.
C25_DecisionAfterJoin ==
  /\ [](tx.state \in CommitInvoked \cup RollbackInvoked => AllSettled)
  /\ []((batch.pc = "done" /\ tx.state # "none") =>
          tx.state \in CommitInvoked \cup RollbackInvoked)
  /\ [][DecidedOnce]_vars

\* C25, its case: of two per-item calls one failed and one succeeded, and
\* rollback was invoked.
C25_Witness ==
  /\ tx.state = "rollingBack"
  /\ Len(proc) = 2
  /\ \E c \in DOMAIN proc : Failed(c)
  /\ \E c \in DOMAIN proc : Succeeded(c)

\* The calls made for the i-th item of a list.
CallsFor(list, i) ==
  {c \in DOMAIN proc : proc[c].list = list /\ proc[c].index = i}

\* Every item of the three lists has one call, of its list's operation on
\* that item.
EveryItemCalledOnce ==
  /\ Len(proc) = Len(batch.items.createItems) + Len(batch.items.updateItems)
                   + Len(batch.items.deleteItems)
  /\ \A i \in 1..Len(batch.items.createItems) :
       /\ Cardinality(CallsFor("create", i)) = 1
       /\ \A c \in CallsFor("create", i) :
            proc[c].op = "createOne" /\ proc[c].given = batch.items.createItems[i]
  /\ \A i \in 1..Len(batch.items.updateItems) :
       /\ Cardinality(CallsFor("update", i)) = 1
       /\ \A c \in CallsFor("update", i) :
            /\ proc[c].op = "updateOne"
            /\ proc[c].given = batch.items.updateItems[i]
            /\ proc[c].params = [id |-> batch.items.updateItems[i].id]
  /\ \A i \in 1..Len(batch.items.deleteItems) :
       /\ Cardinality(CallsFor("delete", i)) = 1
       /\ \A c \in CallsFor("delete", i) :
            /\ proc[c].op = "deleteOne"
            /\ proc[c].params = [id |-> batch.items.deleteItems[i].id]

\* bucket holds the errors of the failed calls of list, each as often as
\* it was raised.
HoldsFailuresOf(bucket, list) ==
  LET failed == {c \in DOMAIN proc : proc[c].list = list /\ Failed(c)}
  IN  /\ Len(bucket) = Cardinality(failed)
      /\ \A c \in failed :
           Cardinality({i \in 1..Len(bucket) : bucket[i] = proc[c].error[1]})
             = Cardinality({d \in failed : proc[d].error = proc[c].error})

\* C26: in the executing phase every item of the three lists has its
\* operation invoked once, whatever fails; the BatchError of the batch
\* holds each failure in the bucket of its own list and drops none.
C26_EveryFailureInItsBucket ==
  /\ batch.pc = "executing" => EveryItemCalledOnce
  /\ (batch.pc = "done" /\ tx.state # "none") =>
       /\ EveryItemCalledOnce
       /\ AllSettled
       /\ (\E c \in DOMAIN proc : Failed(c)) =>
            /\ batch.state = "rejected"
            /\ batch.error[1].name = "BatchError"
            /\ HoldsFailuresOf(batch.error[1].createErrors, "create")
            /\ HoldsFailuresOf(batch.error[1].updateErrors, "update")
            /\ HoldsFailuresOf(batch.error[1].deleteErrors, "delete")

\* C26, its case: two items of one list failed and the batch was rejected.
C26_Witness ==
  /\ batch.pc = "done" /\ batch.state = "rejected"
  /\ \E list \in {"create", "update", "delete"} :
       Cardinality({c \in DOMAIN proc : proc[c].list = list /\ Failed(c)}) = 2

-----------------------------------------------------------------------------
(* Properties of updateOne's comparison and of the batch's order           *)
(* (SpecSeq, SpecBatch).                                                   *)

\* The call c has issued its update.
UpdateIssued(c) ==
  /\ proc[c].op = "updateOne"
  /\ proc[c].pc \in {"update", "reload"} \/ proc[c].itemUpdatedCount >= 0

\* C27: with concurrencyProtection, an updateOne issues its update only if
\* its item has an updated_at that is equal to or newer than the found
\* row's; a call whose item has no updated_at issues none.
C27_AppliedOnlyWithFreshTime ==
  \A c \in DOMAIN proc :
    (concurrencyProtection /\ UpdateIssued(c)) =>
      /\ "updated_at" \in DOMAIN proc[c].given
      /\ proc[c].given.updated_at >= proc[c].foundItem[1].updated_at

\* The same for the calls whose item has an updated_at.
AppliedOnlyWithFreshTimeGiven ==
  \A c \in DOMAIN proc :
    (Protected(c) /\ UpdateIssued(c)) =>
      proc[c].given.updated_at >= proc[c].foundItem[1].updated_at

\* The batch updates and deletes one id, or deletes one id twice.
UpdatesAndDeletes(items) ==
  /\ items.createItems = <<>>
  /\ Len(items.updateItems) = 1 /\ Len(items.deleteItems) = 1
  /\ items.updateItems[1].id = items.deleteItems[1].id
DeletesTwice(items) ==
  /\ items.createItems = <<>> /\ items.updateItems = <<>>
  /\ Len(items.deleteItems) = 2
  /\ items.deleteItems[1].id = items.deleteItems[2].id

Stored(id) == Matching(InitialRows, [id |-> id])
NotFound(id) == getItemNotFoundError([id |-> id])

\* The outcome of the update and the delete of one id made in the order of
\* the request, on the initial rows.
UpdateThenDelete(b) ==
  LET item == b.items.updateItems[1]
      rows == Stored(item.id)
      row == CHOOSE r \in rows : TRUE
  IN  IF rows = {}
      THEN /\ b.state = "rejected"
           /\ b.error[1] = getBatchError(<<>>, <<NotFound(item.id)>>,
                                         <<NotFound(item.id)>>)
      ELSE IF concurrencyProtection /\ row.updated_at > item.updated_at
      THEN /\ b.state = "rejected"
           /\ b.error[1] = getBatchError(<<>>, <<getConcurrencyError(row)>>, <<>>)
      ELSE /\ b.state = "resolved"
           /\ Len(b.result[1].updateResults) = 1
           /\ b.result[1].updateResults[1].id = item.id
           /\ b.result[1].deleteResults = <<[id |-> item.id]>>

\* The outcome of two deletes of one id: the second finds no row.
DeleteThenDelete(b) ==
  LET id == b.items.deleteItems[1].id
  IN  /\ b.state = "rejected"
      /\ b.error[1] =
           getBatchError(<<>>, <<>>,
                         IF Stored(id) = {} THEN <<NotFound(id), NotFound(id)>>
                         ELSE <<NotFound(id)>>)

\* The rows after the batch: the initial rows, less the deleted row when
\* the batch was committed.
FinalStorage(b) ==
  /\ tx.state \in {"rollingBack", "rolledBack", "committing", "commitFailed"} =>
       db = InitialRows
  /\ tx.state = "committed" =>
       db = InitialRows \ Stored(b.items.deleteItems[1].id)

\* The provider rejected no statement of the calls.
ProviderAnswered == \A c \in DOMAIN proc : ~ProviderFailure(proc[c])

\* C28: a batch that updates and deletes one id, or deletes one id twice,
\* ends the same under every interleaving of its per-item calls: with the
\* result or BatchError, and the rows, of the calls made in request order
\* (the provider rejecting no statement).
C28_SameIdSameOutcome ==
  (batch.pc = "done" /\ tx.state # "none" /\ ProviderAnswered) =>
    /\ UpdatesAndDeletes(batch.items) =>
         UpdateThenDelete(batch) /\ FinalStorage(batch)
    /\ DeletesTwice(batch.items) =>
         DeleteThenDelete(batch) /\ FinalStorage(batch)

\* The same for the batch that deletes one id twice.
DeletesTwiceSameOutcome ==
  (batch.pc = "done" /\ tx.state # "none" /\ ProviderAnswered
     /\ DeletesTwice(batch.items)) =>
    DeleteThenDelete(batch) /\ FinalStorage(batch)

\* A batch that deleted a stored id twice has settled.
DeletesTwiceSettled ==
  /\ batch.pc = "done" /\ tx.state = "rolledBack"
  /\ DeletesTwice(batch.items)
  /\ Stored(batch.items.deleteItems[1].id) # {}

\* A batch that updated and deleted a stored id was resolved: its update
\* was applied before its destroy.
UpdatesAndDeletesResolved ==
  /\ batch.pc = "done" /\ batch.state = "resolved"
  /\ UpdatesAndDeletes(batch.items)

\* The results of a list are those of its items, in the items' order.
InItemOrder(results, list, items) ==
  /\ Len(results) = Len(items)
  /\ \A i \in 1..Len(items) :
       \A c \in CallsFor(list, i) : results[i] = proc[c].result[1]

\* The results of a list are those of its items, in some order.
InSomeOrder(results, list, items) ==
  /\ Len(results) = Len(items)
  /\ \A i \in 1..Len(items) :
       \A c \in CallsFor(list, i) :
         Cardinality({j \in 1..Len(results) : results[j] = proc[c].result[1]})
           = Cardinality({d \in DOMAIN proc :
                            proc[d].list = list /\ proc[d].result = proc[c].result})

\* C29: in the result of a resolved batch, createResults, updateResults and
\* deleteResults are as long as createItems, updateItems and deleteItems,
\* and the i-th entry of each is the result of the list's i-th item.
C29_ResultsInItemOrder ==
  batch.state = "resolved" =>
    /\ InItemOrder(batch.result[1].createResults, "create", batch.items.createItems)
    /\ InItemOrder(batch.result[1].updateResults, "update", batch.items.updateItems)
    /\ InItemOrder(batch.result[1].deleteResults, "delete", batch.items.deleteItems)

\* The same without the order: the lengths, and every item's result.
ResultsOfEveryItem ==
  batch.state = "resolved" =>
    /\ InSomeOrder(batch.result[1].createResults, "create", batch.items.createItems)
    /\ InSomeOrder(batch.result[1].updateResults, "update", batch.items.updateItems)
    /\ InSomeOrder(batch.result[1].deleteResults, "delete", batch.items.deleteItems)

\* A resolved batch whose first createResults entry is the row created for
\* its second item.
ResultsInCompletionOrder ==
  /\ batch.state = "resolved"
  /\ Len(batch.items.createItems) = 2
  /\ batch.items.createItems[1] # batch.items.createItems[2]
  /\ \A c \in CallsFor("create", 2) :
       batch.result[1].createResults[1] = proc[c].result[1]

-----------------------------------------------------------------------------
(* Termination of the batch (SpecBatchFair).                               *)

\* C30: when every provider call settles, a batch call settles, and the
\* transaction it opened is committed or rolled back.
C30_BatchSettlesTransactionEnds ==
  /\ (batch.pc # "idle") ~> (batch.pc = "done" /\ batch.state # "pending")
  /\ (tx.state = "open") ~> (tx.state \in {"committed", "rolledBack"})

\* The same with the transaction's end left open: the batch settles, and
\* commit or rollback is invoked on the transaction and settles.
BatchSettlesDecisionSettles ==
  /\ (batch.pc # "idle") ~> (batch.pc = "done" /\ batch.state # "pending")
  /\ (tx.state = "open") ~>
       (tx.state \in {"committed", "commitFailed", "rolledBack"})

\* The batch is resolved and the commit of its transaction has failed.
ResolvedAndCommitFailed ==
  batch.state = "resolved" /\ tx.state = "commitFailed"

-----------------------------------------------------------------------------
(* Properties of sort (SpecParse).                                         *)

\* The query has the one key sort, and its parse has returned.
SortParsed ==
  /\ ppc = "parsed" /\ hasQuery /\ ~parsed.threw
  /\ Len(rawQuery) = 1 /\ rawQuery[1].k = "sort"

\* The sort items that give an order entry: unprefixed or prefixed with
\* '-', and naming a field of the schema.
Orders(sortItem) ==
  sortItem.pre \in {"", "-"} /\ sortItem.name \in rawAttributes

\* The sort items that give an error: unprefixed or prefixed with '-', and
\* naming no field of the schema.
Misses(sortItem) ==
  sortItem.pre \in {"", "-"} /\ sortItem.name \notin rawAttributes

\* An order entry as field and direction; an entry without a direction is
\* sorted ascending by the provider.
Entry(e) == [field |-> e[1], descending |-> Len(e) > 1 /\ e[2] = "DESC"]

\* The entries and the errors expected of a sort value.
ExpectedOrder(sortItems) ==
  LET kept == SelectSeq(sortItems, Orders)
  IN  [i \in 1..Len(kept) |->
         [field |-> kept[i].name, descending |-> kept[i].pre = "-"]]
ExpectedMisses(sortItems) ==
  LET missed == SelectSeq(sortItems, Misses)
  IN  [i \in 1..Len(missed) |->
         [id |-> 90009, name |-> "MissingFieldError",
          fieldName |-> Part("", missed[i].name)]]

WithoutPlus(sortItems) == SelectSeq(sortItems, LAMBDA item : item.pre # "+")

\* What the parser gives for the query sort=value: order and errors.
SortOutcome(value) ==
  LET p == _parseQuery(<<[k |-> "sort", v |-> value]>>)
  IN  [order |-> p.options.order, errors |-> p.errors]

\* C33: a sort item with a leading '+' adds no order entry and no error,
\* whether or not its field exists, and the other items are processed as
\* if it were absent: order and errors are those of the sort value without
\* its '+' items, and no entry or error is there for a '+' item alone.
C33_PlusItemDropped ==
  (SortParsed /\ \E i \in 1..Len(rawQuery[1].v) : rawQuery[1].v[i].pre = "+") =>
    /\ Len(parsed.options.order.items) + Len(parsed.errors)
         = Len(WithoutPlus(rawQuery[1].v))
    /\ IF WithoutPlus(rawQuery[1].v) = <<>>
       THEN parsed.options.order.items = <<>> /\ parsed.errors = <<>>
       ELSE [order |-> parsed.options.order, errors |-> parsed.errors]
              = SortOutcome(WithoutPlus(rawQuery[1].v))

\* C33, its case: sort=+bogus,-id gave the one entry of -id and no error.
C33_Witness ==
  /\ SortParsed
  /\ rawQuery[1].v = <<Part("+", "bogus"), Part("-", "id")>>
  /\ parsed.options.order.items = <<(<<"id", "DESC">>)>>
  /\ parsed.errors = <<>>

-----------------------------------------------------------------------------
(* Properties of the lock registry (SpecLocks).                            *)

\* The events received for the pair (type, id), by their position.
EventsOf(type, id) ==
  {i \in 1..Len(locks.events) :
     locks.events[i].data = [type |-> type, item |-> id]}

\* The most recent event for the pair was a LOCK.
LastWasLock(type, id) ==
  /\ EventsOf(type, id) # {}
  /\ LET last == CHOOSE i \in EventsOf(type, id) :
                   \A j \in EventsOf(type, id) : j <= i
     IN  locks.events[last].name = "LOCK"

Truthy(value) == value = <<TRUE>>

\* C38: isLocked(type, id) is truthy exactly when the most recent LOCK or
\* UNLOCK for the pair (type, id) was a LOCK, whatever was received for
\* other pairs and whichever socket sent it.
C38_LockedIffLastWasLock ==
  \A type \in LockTypes, id \in Ids :
    Truthy(isLocked(locks.registry, type, id)) <=> LastWasLock(type, id)

\* C38, its case: a task locked by one socket and unlocked by another is
\* not locked, while the user of the same id, locked in between, is.
C38_Witness ==
  /\ Len(locks.events) = 3
  /\ locks.events[1] = [name |-> "LOCK", socket |-> 1,
                        data |-> [type |-> <<"task">>, item |-> 1]]
  /\ locks.events[2].name = "LOCK"
  /\ locks.events[2].data = [type |-> <<"user">>, item |-> 1]
  /\ locks.events[3] = [name |-> "UNLOCK", socket |-> 2,
                        data |-> [type |-> <<"task">>, item |-> 1]]
  /\ ~Truthy(isLocked(locks.registry, <<"task">>, 1))
  /\ Truthy(isLocked(locks.registry, <<"user">>, 1))

-----------------------------------------------------------------------------
(* Properties of the Mediator under the lock registry (SpecLocked).  The   *)
(* table starts with the task of id 1 and description a, updated at 1.     *)

\* The rows after the stored task was updated to description b, or deleted.
UpdatedRows ==
  {[id |-> 1, description |-> "b", created_at |-> 0, updated_at |-> 1]}

\* The item of an update is older than the stored task.
StaleItem(item) ==
  concurrencyProtection /\ "updated_at" \in DOMAIN item /\ item.updated_at < 1

\* What deleteOne of id gives on the initial rows.
DeleteOutcome(id, call) ==
  IF id = 1
  THEN call.state = "resolved" /\ call.result = <<[id |-> 1]>>
  ELSE call.state = "rejected" /\ call.error = <<NotFound(id)>>

\* What updateOne of item gives on the initial rows.
UpdateOutcome(item, call) ==
  IF item.id # 1
  THEN call.state = "rejected" /\ call.error = <<NotFound(item.id)>>
  ELSE IF StaleItem(item)
  THEN call.state = "rejected" /\ call.error[1].name = "ConcurrencyError"
  ELSE call.state = "resolved" /\ call.result[1].id = 1

\* The outcome of a call one of whose statements the provider rejected: the
\* provider's error, and the rows as they were unless it was the reload of
\* an applied update that was rejected.
FailureOutcome(call) ==
  /\ ProviderFailure(call)
  /\ db = IF call.op = "updateOne" /\ call.itemUpdatedCount = 1
          THEN UpdatedRows ELSE InitialRows

\* The outcome of the one call made on the Mediator directly.
SingleOutcome(call) ==
  CASE ProviderFailure(call) -> FailureOutcome(call)
    [] call.op = "deleteOne" ->
         /\ DeleteOutcome(call.params.id, call)
         /\ db = IF call.params.id = 1 THEN {} ELSE InitialRows
    [] call.op = "updateOne" ->
         /\ UpdateOutcome(call.given, call)
         /\ db = IF call.state = "resolved" THEN UpdatedRows ELSE InitialRows
    [] call.op = "updateMany" ->
         LET count == IF call.params = [description |-> "none"] THEN 0 ELSE 1
         IN  /\ call.state = "resolved"
             /\ call.result = <<[affectedCount |-> count]>>
             /\ db = IF count = 1 THEN UpdatedRows ELSE InitialRows
    [] call.op = "deleteAll" ->
         /\ call.state = "resolved" /\ call.result = <<1>>
         /\ db = {}

\* The outcome of the batch of one item, its transaction ended.
BatchOutcome ==
  /\ batch.state = "resolved" <=> \A c \in DOMAIN proc : Succeeded(c)
  /\ \A c \in DOMAIN proc :
       IF ProviderFailure(proc[c]) THEN TRUE
       ELSE IF proc[c].op = "deleteOne"
       THEN DeleteOutcome(proc[c].params.id, proc[c])
       ELSE UpdateOutcome(proc[c].given, proc[c])
  /\ db = IF batch.state = "rejected" THEN InitialRows
          ELSE IF batch.items.deleteItems # <<>> THEN {}
          ELSE UpdatedRows

\* C34: the result, the error and the effect on the table of updateOne,
\* updateMany, deleteOne, deleteAll and a batch are those the request and
\* the table give, whatever LOCK and UNLOCK events the registry has
\* received: a locked task is updated and deleted like any other.  (A call
\* whose statement the provider rejected fails with the provider's error.)
C34_OutcomeWhateverLocks ==
  /\ \A c \in DOMAIN proc :
       (proc[c].pc = "done" /\ proc[c].list = "") => SingleOutcome(proc[c])
  /\ (batch.pc = "done" /\ tx.state \in {"committed", "rolledBack"}) =>
       BatchOutcome

\* C34, its case: the task of id 1 is locked, and a deleteOne of it was
\* resolved and the row is gone.
C34_Witness ==
  /\ locks.events # <<>>
  /\ isLocked(locks.registry, <<"task">>, 1) = <<TRUE>>
  /\ \E c \in DOMAIN proc :
       /\ proc[c].op = "deleteOne" /\ proc[c].list = ""
       /\ proc[c].params.id = 1 /\ Succeeded(c)
  /\ db = {}

-----------------------------------------------------------------------------
(* Properties of the routes and of authenticate (SpecRoutes).              *)

RangeOf(seq) == {seq[i] : i \in DOMAIN seq}

\* The invocations of the middlewares of an array of the instance.
InvocationsOf(array) ==
  {Invocation(array, i, request.arrays[array][i]) :
     i \in DOMAIN request.arrays[array]}

\* Every middleware of the array was invoked and called its continuation.
Passed(array) ==
  /\ InvocationsOf(array) \subseteq RangeOf(request.invoked)
  /\ InvocationsOf(array) \subseteq RangeOf(request.continued)

\* The endpoints of a ModelRoutes instance, and those that create or update.
ModelEndpoints == Endpoints \ {"authenticate"}
ChangeEndpoints == {"createOne", "updateOne", "updateMany", "batch"}
ChangeEndpointsButBatch == ChangeEndpoints \ {"batch"}

\* The handler of the endpoint was reached.
AtHandler(endpoints) ==
  request.pc = "handler" /\ request.endpoint \in endpoints

\* C35: the handler of an endpoint is reached only after every
\* globalMiddleware continued, and the handler of POST create, PUT
\* update-one, PUT update-many and PATCH batch only after every
\* changeMiddleware continued.
C35_ChangeMiddlewareBeforeHandler ==
  /\ AtHandler(ModelEndpoints) => Passed("globalMiddleware")
  /\ AtHandler(ChangeEndpoints) => Passed("changeMiddleware")

\* C35, for the endpoints other than PATCH batch: what the routes do.
C35_ChangeMiddlewareButBatch ==
  /\ AtHandler(ModelEndpoints) => Passed("globalMiddleware")
  /\ AtHandler(ChangeEndpointsButBatch) => Passed("changeMiddleware")
  /\ AtHandler({"batch"}) => Passed("batchMiddleware")

\* C35, the divergence: the batch handler is reached and hashPassword,
\* installed as changeMiddleware, was never invoked.
C35_BatchSkipsChangeMiddleware ==
  /\ AtHandler({"batch"})
  /\ request.call = "batchCreateUpdateDelete"
  /\ request.arrays.changeMiddleware = <<"hashPassword">>
  /\ \A i \in DOMAIN request.invoked :
       request.invoked[i].array # "changeMiddleware"

\* The positions in invoked of the invocations of one array.
PositionsOf(seq, array) == {i \in DOMAIN seq : seq[i].array = array}

\* The middlewares of the array were invoked in array order, each once:
\* the k-th invocation of the array is that of its k-th middleware.
InArrayOrder(array) ==
  \A i \in PositionsOf(request.invoked, array) :
    LET k == Cardinality({j \in PositionsOf(request.invoked, array) : j <= i})
    IN  /\ k <= Len(request.arrays[array])
        /\ request.invoked[i] = Invocation(array, k, request.arrays[array][k])

\* Each invocation but the first of the array follows the continuation of
\* the previous middleware; at most the last invocation has not continued.
AfterPrevious(array) ==
  \A i \in PositionsOf(request.invoked, array) :
    request.invoked[i].index > 1 =>
      Invocation(array, request.invoked[i].index - 1,
                 request.arrays[array][request.invoked[i].index - 1])
        \in RangeOf(request.continued)

\* The final next of the array: at most once, and only with the array
\* passed.
FinalNext(array) ==
  /\ Cardinality({i \in DOMAIN request.nexts : request.nexts[i] = array}) <= 1
  /\ array \in RangeOf(request.nexts) => Passed(array)

\* The array the request is in, when a middleware of an array is running
\* or has ended the request or thrown.
InArray ==
  /\ request.pc \in {"middleware", "ended", "threw"}
  /\ Current(request).array \in ArrayNames

\* C36: the middlewares of an array are invoked in array order, each at
\* most once and each after the previous one continued; the final next is
\* invoked at most once, only when every middleware of the array has
\* continued, exactly once when the request has gone past the array, and
\* not when a middleware ended the request without continuing.
C36_MiddlewareInOrderNextOnce ==
  /\ \A array \in ArrayNames :
       InArrayOrder(array) /\ AfterPrevious(array) /\ FinalNext(array)
  /\ InArray => Current(request).array \notin RangeOf(request.nexts)
  /\ request.pc = "handler" =>
       \A i \in DOMAIN Routes[request.endpoint].chain :
         Routes[request.endpoint].chain[i] \in ArrayNames =>
           Routes[request.endpoint].chain[i] \in RangeOf(request.nexts)

\* C36, its case: an array of two middlewares, both invoked and continued,
\* and its final next invoked.
C36_Witness ==
  /\ Len(request.arrays.globalMiddleware) = 2
  /\ Passed("globalMiddleware")
  /\ "globalMiddleware" \in RangeOf(request.nexts)
  /\ request.pc = "handler"

\* C37: authenticate, once done, has sent exactly one response.
C37_OneResponse ==
  auth.pc = "done" => Len(auth.sent) = 1

\* C37, for the paths on which bcrypt.compare reports no error: one
\* response, and the user with a token only as the single response.
C37_OneResponseUnlessCompareError ==
  auth.pc = "done" =>
    \/ Len(auth.sent) = 1
    \/ auth.sent = <<"InvalidAuthentication", "InvalidAuthentication">>

\* C37, the divergence: two InvalidAuthentication responses on one request.
C37_TwoResponses ==
  /\ auth.pc = "done"
  /\ auth.sent = <<"InvalidAuthentication", "InvalidAuthentication">>

====
